---------------------------- MODULE Spec2Model ----------------------------
(***************************************************************************)
(* A model of the local-variable optimization core of binaryen (branch of  *)
(* xujuntwt95329): liveness over a CFG (cfg/liveness-traversal.h), the     *)
(* local coalescer (passes/CoalesceLocals.cpp), the elimination of         *)
(* redundant sets (passes/RedundantSetElimination.cpp) and the propagation *)
(* of copies (passes/CopyPropagation.cpp).                                 *)
(*                                                                         *)
(* The specifications share the variables:                                 *)
(*   SpecPick    the index picking of the coalescer on arbitrary           *)
(*               interference relations, copy weights, types and orders;   *)
(*   SpecOrders  the orders the learner's Generator makes;                 *)
(*   SpecTwoOrders  CoalesceLocals::pickIndices alone, also on functions   *)
(*               of four variables;                                        *)
(*   SpecLearn   the learner on functions of four variables;               *)
(*   SpecLive    flowIndexLiveness, one queue pop per step, on arbitrary   *)
(*               small CFGs (SpecLiveFair adds the fairness of its loop);  *)
(*   Spec        CoalesceLocals::doWalkFunction on small functions;        *)
(*   SpecAgain   the same, and once more on the function it left;          *)
(*   SpecRse     RedundantSetElimination on small functions, and again on  *)
(*               what it left;                                             *)
(*   SpecCp      CopyPropagation, an iteration of its loop per step, and   *)
(*               again on what it left (SpecCpFair adds the fairness of    *)
(*               the loop);                                                *)
(*   SpecScan    the CallCountScanners of ReorderFunctions, a visited call *)
(*               per step, the functions interleaved.                      *)
(***************************************************************************)
EXTENDS Integers, Sequences, FiniteSets, TLC

VARIABLES
  func,               \* the function being processed (see MakeFunc)
  pc,                 \* position in the operation being modelled
  indexInterferences, \* Interferences::indexInterferences
  copies,             \* Copies::copies (canonical pairs -> weight)
  handed,             \* the orders handed to pickIndicesFromOrder by the last operation
  indices,            \* oldIndex -> newIndex, as picked
  removedCopies,      \* removedCopies of the pick that produced indices
  population,         \* orders the learner's Generator has produced and kept
  first,              \* Generator::first
  startIndexes,       \* Liveness::startIndexes of each block
  endIndexes,         \* Liveness::endIndexes of each block
  queue,              \* the work queue of flowIndexLiveness
  startSets,          \* Liveness::startSets of each block
  endSets,            \* Liveness::endSets of each block
  getSetses,          \* GetSets::getSetses: the sets that reach each get
  equivalenceClasses, \* Equivalences::equivalenceClasses
  ir,                 \* the IR as the last pass leaves it (see applyIndices, unInstrument)
  unneeded,           \* the sets markSetAsUnneeded was called on
  changesDone,        \* CopyPropagation: the changes done, as (get, index) pairs
  module,             \* ReorderFunctions: the call targets of each function, in walk order
  counts,             \* ReorderFunctions::run: NameCountMap counts
  scanned             \* the calls of each function its CallCountScanner has visited

pickVars == <<indexInterferences, copies, handed, indices, removedCopies, population, first>>

liveVars == <<startIndexes, endIndexes, queue>>

coalVars == <<startSets, endSets, getSetses, equivalenceClasses, ir>>

scanVars == <<module, counts, scanned>>

passVars == <<unneeded, changesDone, scanVars>>

vars == <<func, pc, pickVars, liveVars, coalVars, passVars>>

-----------------------------------------------------------------------------
(* Bounds of the model.                                                    *)

\* most locals (parameters and declared variables) of a function
MaxLocals == 3
\* most orders the modelled learner population keeps at a time
MaxPopulation == 2
\* most basic blocks of a CFG flowIndexLiveness is run on
MaxBlocks == 3
\* most actions, over all blocks, of such a CFG
MaxActions == 2

\* std::numeric_limits<Index>::max(), the priority that pins the parameters. Index is
\* 32 bits wide and unsigned; the model's integers end at 2^31 - 1, which stands for
\* it: like the real maximum, it is above every total of copies a function can have
IndexMax == 2147483647
\* newCopies is a vector of uint8_t: its entries are kept modulo 2^8
Uint8Mod == 256

Types == {"i32", "i64"}
\* weights noteCopy can accumulate for a pair: nothing, one copy (2), a copy on a
\* backedge (2+1), 128 copies (the amounts are added up in an Index, line 192)
CopyWeights == {0, 2, 3, 256}

\* the function fn with its value at every argument worked out, once: comparing a
\* function makes the model checker tabulate it, where it would otherwise work the
\* value out again each time the function is applied
Tabulated(fn) == IF fn = fn THEN fn ELSE fn

\* the one element of a set of one element: what an operator is applied to is worked
\* out each time the operator reads it, what a set binds is worked out once
Only(S) == CHOOSE x \in S : TRUE

Min(a, b) == IF a < b THEN a ELSE b
Max(a, b) == IF a < b THEN b ELSE a

RECURSIVE SumOver(_, _)
SumOver(S, f) == IF S = {} THEN 0
                 ELSE LET x == CHOOSE y \in S : TRUE IN f[x] + SumOver(S \ {x}, f)

-----------------------------------------------------------------------------
(* The function: parameters first, then the declared variables.            *)

Locals(f) == 0 .. (f.numLocals - 1)
Params(f) == 0 .. (f.numParams - 1)
Vars(f) == f.numParams .. (f.numLocals - 1)
getLocalType(f, i) == f.types[i]

\* SymmetricPair: the canonical form of an unordered pair
SymmetricPair(a, b) == IF a > b THEN <<b, a>> ELSE <<a, b>>
CanonicalPairs(n) == {p \in (0 .. (n - 1)) \X (0 .. (n - 1)) : p[1] <= p[2]}

\* Copies::getCopies
getCopies(cp, i, j) ==
  LET p == SymmetricPair(i, j) IN IF p \in DOMAIN cp THEN cp[p] ELSE 0

\* Copies::totalCopies as noteCopy maintains it: each noted amount is added to
\* both ends, so a copy of a local to itself counts twice for it
getTotalCopies(f, cp) ==
  [i \in Locals(f) |->
     SumOver(Locals(f), [j \in Locals(f) |->
        IF j = i THEN 2 * getCopies(cp, i, i) ELSE getCopies(cp, i, j)])]

-----------------------------------------------------------------------------
(* support/permutations.h                                                  *)

makeIdentity(n) == [i \in 0 .. (n - 1) |-> i]

\* makeReversed: ret[original[i]] = i
makeReversed(original) ==
  [x \in DOMAIN original |-> CHOOSE i \in DOMAIN original : original[i] = x]

IsPermutation(o, n) ==
  /\ DOMAIN o = 0 .. (n - 1)
  /\ \A x \in 0 .. (n - 1) : \E i \in 0 .. (n - 1) : o[i] = x

Permutations0(n) == {o \in [0 .. (n - 1) -> 0 .. (n - 1)] : IsPermutation(o, n)}

\* the orders pickIndicesFromOrder accepts: its assertion order[i] == i on the parameters
ValidOrders(f) == {o \in Permutations0(f.numLocals) : \A i \in Params(f) : o[i] = i}

-----------------------------------------------------------------------------
(* CoalesceLocals::pickIndicesFromOrder                                    *)

\* the state after the parameter loop (lines 552-575)
PickInit(f, interf, cp) ==
  [ indices |-> [i \in Locals(f) |-> IF i \in Params(f) THEN i ELSE 0],
    types |-> [j \in Locals(f) |-> IF j \in Params(f) THEN getLocalType(f, j) ELSE "none"],
    newInterferences |->
      [j \in Locals(f) |-> [a \in Locals(f) |->
         j \in Params(f) /\ a \in Vars(f) /\ a \in interf[j]]],
    newCopies |->
      [j \in Locals(f) |-> [a \in Locals(f) |->
         IF j \in Params(f) /\ a \in Vars(f) THEN getCopies(cp, j, a) % Uint8Mod ELSE 0]],
    nextFree |-> f.numParams,
    removedCopies |-> 0 ]

\* the scan of the indices in use for the one to give to actual (lines 578-590);
\* found = -1 stands for Index(-1), and foundCopies starts as uint8_t(-1)
RECURSIVE FindIndex(_, _, _, _, _, _)
FindIndex(f, st, actual, j, found, foundCopies) ==
  IF j >= st.nextFree THEN [found |-> found, foundCopies |-> foundCopies]
  ELSE IF ~st.newInterferences[j][actual] /\ getLocalType(f, actual) = st.types[j]
       THEN LET currCopies == st.newCopies[j][actual] IN
            IF found = -1 \/ currCopies > foundCopies
            THEN FindIndex(f, st, actual, j + 1, j, currCopies)
            ELSE FindIndex(f, st, actual, j + 1, found, foundCopies)
       ELSE FindIndex(f, st, actual, j + 1, found, foundCopies)

\* (mutation) the row of the index takes the interferences of the last local merged only
MergeInterference_Overwrite(old, hasIt) == hasIt

\* the merge of actual's interferences into the row of its index (line 606)
MergeInterference(old, hasIt) == old \/ hasIt

\* (mutation) a new index is opened one past the next free one
OpenIndex_Skip(nextFree) == nextFree + 1

\* the index a local gets when none in use fits (line 592)
OpenIndex(nextFree) == nextFree

\* one iteration of the main loop (lines 576-609), for the local at position i of the order
PickStep(f, interf, cp, order, st, i) ==
  LET actual == order[i]
      r == FindIndex(f, st, actual, 0, -1, Uint8Mod - 1)
      opened == r.found = -1
      found == IF opened THEN OpenIndex(st.nextFree) ELSE r.found
      later == {order[k] : k \in (i + 1) .. (f.numLocals - 1)}
  IN [ indices |-> [st.indices EXCEPT ![actual] = found],
       types |-> IF opened THEN [st.types EXCEPT ![found] = getLocalType(f, actual)]
                 ELSE st.types,
       nextFree |-> IF opened THEN st.nextFree + 1 ELSE st.nextFree,
       removedCopies |-> st.removedCopies +
                         (IF opened THEN getCopies(cp, found, actual) ELSE r.foundCopies),
       newInterferences |->
         [st.newInterferences EXCEPT ![found] =
            [j \in Locals(f) |->
               IF j \in later THEN MergeInterference(@[j], j \in interf[actual]) ELSE @[j]]],
       newCopies |->
         [st.newCopies EXCEPT ![found] =
            [j \in Locals(f) |->
               IF j \in later THEN (@[j] + getCopies(cp, actual, j)) % Uint8Mod ELSE @[j]]] ]

RECURSIVE PickLoop(_, _, _, _, _, _)
PickLoop(f, interf, cp, order, st, i) ==
  IF i >= f.numLocals THEN st
  ELSE PickLoop(f, interf, cp, order, PickStep(f, interf, cp, order, st, i), i + 1)

pickIndicesFromOrder(f, interf, cp, order) ==
  PickLoop(f, interf, cp, order, PickInit(f, interf, cp), f.numParams)

MaxOf(ind) == CHOOSE m \in {ind[i] : i \in DOMAIN ind} : \A i \in DOMAIN ind : ind[i] <= m

-----------------------------------------------------------------------------
(* adjustOrderByPriorities and CoalesceLocals::pickIndices                 *)

\* the comparator handed to std::sort (line 619)
PriorityLess(priorities, reversed, x, y) ==
  \/ priorities[x] > priorities[y]
  \/ (priorities[x] = priorities[y] /\ reversed[x] < reversed[y])

\* std::sort by a strict total order: the element at position k has k elements before it
adjustOrderByPriorities(baseline, priorities) ==
  LET reversed == makeReversed(baseline)
      elems == {baseline[i] : i \in DOMAIN baseline}
  IN [k \in DOMAIN baseline |->
        CHOOSE x \in elems :
          Cardinality({y \in elems : PriorityLess(priorities, reversed, y, x)}) = k]

\* parameters get the maximal priority (lines 631-635)
adjustedTotalCopies(f, cp) ==
  [i \in Locals(f) |-> IF i \in Params(f) THEN IndexMax ELSE getTotalCopies(f, cp)[i]]

\* the natural order, adjusted (lines 638-639)
NaturalOrder(f, cp) ==
  adjustOrderByPriorities(makeIdentity(f.numLocals), adjustedTotalCopies(f, cp))

\* the order with the non-parameters reversed, adjusted (lines 645-649)
ReverseOrder(f, cp) ==
  adjustOrderByPriorities(
    [i \in Locals(f) |-> IF i \in Params(f) THEN i ELSE f.numParams + f.numLocals - 1 - i],
    adjustedTotalCopies(f, cp))

\* (mutation) the reverse order is kept only when it removes more copies
pickIndices_NoTieBreak(f, interf, cp) ==
  IF f.numLocals = 0 THEN [indices |-> <<>>, removedCopies |-> 0, handed |-> <<>>]
  ELSE IF f.numLocals = 1
  THEN [indices |-> [i \in {0} |-> 0], removedCopies |-> 0, handed |-> <<>>]
  ELSE
    LET o1 == NaturalOrder(f, cp)
        r1 == pickIndicesFromOrder(f, interf, cp, o1)
        o2 == ReverseOrder(f, cp)
        r2 == pickIndicesFromOrder(f, interf, cp, o2)
        r == IF r2.removedCopies > r1.removedCopies THEN r2 ELSE r1
    IN [indices |-> r.indices, removedCopies |-> r.removedCopies, handed |-> <<o1, o2>>]

\* CoalesceLocals::pickIndices: the indices and the removed copies of the order it keeps
pickIndices(f, interf, cp) ==
  IF f.numLocals = 0 THEN [indices |-> <<>>, removedCopies |-> 0, handed |-> <<>>]
  ELSE IF f.numLocals = 1
  THEN [indices |-> [i \in {0} |-> 0], removedCopies |-> 0, handed |-> <<>>]
  ELSE
    LET o1 == NaturalOrder(f, cp)
        r1 == pickIndicesFromOrder(f, interf, cp, o1)
        o2 == ReverseOrder(f, cp)
        r2 == pickIndicesFromOrder(f, interf, cp, o2)
        swap == \/ r2.removedCopies > r1.removedCopies
                \/ (r2.removedCopies = r1.removedCopies /\ MaxOf(r2.indices) < MaxOf(r1.indices))
        r == IF swap THEN r2 ELSE r1
    IN [indices |-> r.indices, removedCopies |-> r.removedCopies, handed |-> <<o1, o2>>]

-----------------------------------------------------------------------------
(* The type list applyIndices leaves (lines 686-699): vars is resized, and a    *)
(* slot no local is mapped to keeps the type it had, or none past the old end.  *)

applyIndicesVars(f, ind) ==
  LET newNumLocals == IF f.numLocals = 0 THEN 0 ELSE MaxOf(ind) + 1
      resized == [s \in f.numParams .. (newNumLocals - 1) |->
                    IF s < f.numLocals THEN getLocalType(f, s) ELSE "none"]
      writers(s) == {i \in Vars(f) : ind[i] = s}
  IN [s \in DOMAIN resized |->
        IF writers(s) = {} THEN resized[s]
        ELSE getLocalType(f, CHOOSE i \in writers(s) : \A k \in writers(s) : k <= i)]

-----------------------------------------------------------------------------
(* The learner's Generator (lines 731-810).                                *)

\* (mutation) the shuffle starts at begin() and so moves the parameters too
ShuffledOrders_All(f) == Permutations0(f.numLocals)

\* makeRandom after the first call: the parameters stay, the rest is shuffled (line 768)
ShuffledOrders(f) == ValidOrders(f)

\* makeMixture's loop (lines 792-798): flip adjacent pairs that right has in the other order
RECURSIVE MixLoop(_, _, _, _)
MixLoop(ret, reverseRight, i, size) ==
  IF i >= size - 1 THEN ret
  ELSE IF reverseRight[ret[i]] > reverseRight[ret[i + 1]]
       THEN MixLoop([ret EXCEPT ![i] = ret[i + 1], ![i + 1] = ret[i]],
                    reverseRight, i + 2, size)
       ELSE MixLoop(ret, reverseRight, i + 1, size)

\* the position makeMixture starts flipping at
MixStart(f) == f.numParams

makeMixture(f, left, right) ==
  LET size == f.numLocals
      reverseRight == [x \in 0 .. (size - 1) |-> CHOOSE i \in 0 .. (size - 1) : right[i] = x]
  IN MixLoop(left, reverseRight, MixStart(f), size)

-----------------------------------------------------------------------------
(* SpecPick: the picking operations on every small input.                  *)

MakeFunc(n, p, ty) ==
  [numLocals |-> n, numParams |-> p, types |-> ty, actions |-> <<>>, out |-> <<>>]

PickFuncs ==
  UNION {{MakeFunc(n, p, ty) : p \in 0 .. n, ty \in [0 .. (n - 1) -> Types]} : n \in 0 .. MaxLocals}

\* indexInterferences as Interferences::compute builds it: symmetric, no local with itself
InterferenceRelations(f) ==
  {r \in [Locals(f) -> SUBSET Locals(f)] :
     \A i \in Locals(f) : i \notin r[i] /\ \A j \in r[i] : i \in r[j]}

\* copies as noteCopy builds them; a local copied to itself is not enumerated here
CopyMaps(f) ==
  {c \in [CanonicalPairs(f.numLocals) -> CopyWeights] :
     \A p \in DOMAIN c : p[1] = p[2] => c[p] = 0}

NoIndices == <<>>

InitPick ==
  /\ func \in PickFuncs
  /\ indexInterferences \in InterferenceRelations(func)
  /\ copies \in CopyMaps(func)
  /\ pc = "ready"
  /\ handed = <<>>
  /\ indices = NoIndices
  /\ removedCopies = 0
  /\ population = {}
  /\ first = TRUE
  /\ startIndexes = <<>>
  /\ endIndexes = <<>>
  /\ queue = {}
  /\ startSets = <<>>
  /\ endSets = <<>>
  /\ getSetses = <<>>
  /\ equivalenceClasses = <<>>
  /\ ir = <<>>
  /\ unneeded = {}
  /\ changesDone = {}
  /\ module = <<>>
  /\ counts = <<>>
  /\ scanned = <<>>

\* pickIndicesFromOrder called with an order that passes its assertion
PickFromOrder ==
  /\ pc = "ready"
  /\ \E order \in ValidOrders(func) :
       LET r == pickIndicesFromOrder(func, indexInterferences, copies, order) IN
         /\ handed' = <<order>>
         /\ indices' = r.indices
         /\ removedCopies' = r.removedCopies
  /\ pc' = "picked"
  /\ UNCHANGED <<func, indexInterferences, copies, population, first, liveVars, coalVars, passVars>>

\* CoalesceLocals::pickIndices
PickIndices ==
  /\ pc = "ready"
  /\ LET r == pickIndices(func, indexInterferences, copies) IN
       /\ handed' = r.handed
       /\ indices' = r.indices
       /\ removedCopies' = r.removedCopies
  /\ pc' = "picked"
  /\ UNCHANGED <<func, indexInterferences, copies, population, first, liveVars, coalVars, passVars>>

NextPick == PickFromOrder \/ PickIndices

SpecPick == InitPick /\ [][NextPick]_vars

-----------------------------------------------------------------------------
(* SpecOrders: the orders pickIndices and the learner's Generator build.   *)
(* The orders depend on the copies and on the parameters only, so the      *)
(* functions here have one type and no interference.                       *)

OrderFuncs == {f \in PickFuncs : \A i \in Locals(f) : f.types[i] = "i32"}

InitOrders ==
  /\ func \in OrderFuncs
  /\ indexInterferences = [i \in Locals(func) |-> {}]
  /\ copies \in CopyMaps(func)
  /\ pc = "ready"
  /\ handed = <<>>
  /\ indices = NoIndices
  /\ removedCopies = 0
  /\ population = {}
  /\ first = TRUE
  /\ startIndexes = <<>>
  /\ endIndexes = <<>>
  /\ queue = {}
  /\ startSets = <<>>
  /\ endSets = <<>>
  /\ getSetses = <<>>
  /\ equivalenceClasses = <<>>
  /\ ir = <<>>
  /\ unneeded = {}
  /\ changesDone = {}
  /\ module = <<>>
  /\ counts = <<>>
  /\ scanned = <<>>

\* Generator::computeFitness (lines 734-750) as a number: the fitness times numLocals,
\* which makes the fragment 1 / (2 * numLocals) of an unmoved local the integer 50
fitnessOf(f, o, r) ==
  f.numLocals * (100 * (f.numLocals - MaxOf(r.indices)) + r.removedCopies)
    + 50 * Cardinality({i \in Locals(f) : o[i] = i})

getFitness(f, interf, cp, o) ==
  Only({fitnessOf(f, o, r) : r \in {pickIndicesFromOrder(f, interf, cp, o)}})

\* the fitness of an order for the function at hand
fitnessNow(o) == getFitness(func, indexInterferences, copies, o)

\* the learner keeps a produced order: in a free place, or in the place of another
\* that is not the only fittest one
Keep(o) ==
  \/ /\ Cardinality(population \cup {o}) <= MaxPopulation
     /\ population' = population \cup {o}
  \/ /\ Cardinality(population \cup {o}) > MaxPopulation
     /\ \E fitness \in {Tabulated([x \in population \cup {o} |-> fitnessNow(x)])} :
          \E old \in population :
            /\ \E other \in (population \cup {o}) \ {old} : fitness[old] <= fitness[other]
            /\ population' = (population \ {old}) \cup {o}

\* Generator::computeFitness hands the new order to pickIndicesFromOrder, whose
\* assertion stops the program when the order moves a parameter
ComputeFitness(o) ==
  /\ handed' = <<o>>
  /\ IF o \in ValidOrders(func)
     THEN LET r == pickIndicesFromOrder(func, indexInterferences, copies, o) IN
            indices' = r.indices /\ removedCopies' = r.removedCopies /\ pc' = "learning"
     ELSE indices' = NoIndices /\ removedCopies' = 0 /\ pc' = "failed"

\* Generator::makeRandom; the learner runs only with more than one declared variable (line 712)
MakeRandom ==
  /\ pc \in {"ready", "learning"}
  /\ func.numLocals - func.numParams > 1
  /\ \E o \in (IF first THEN {makeIdentity(func.numLocals)} ELSE ShuffledOrders(func)) :
       Keep(o) /\ ComputeFitness(o)
  /\ first' = FALSE
  /\ UNCHANGED <<func, indexInterferences, copies, liveVars, coalVars, passVars>>

\* Generator::makeMixture of two orders of the population
MakeMixture ==
  /\ pc = "learning"
  /\ \E left \in population, right \in population :
       LET o == makeMixture(func, left, right) IN Keep(o) /\ ComputeFitness(o)
  /\ UNCHANGED <<func, indexInterferences, copies, first, liveVars, coalVars, passVars>>

\* lines 822-836: the generations are over, and the best order of the learner is
\* handed to pickIndicesFromOrder
LearnerPicks ==
  /\ pc = "learning"
  /\ \E best \in population :
       /\ \A o \in population : fitnessNow(o) <= fitnessNow(best)
       /\ LET r == pickIndicesFromOrder(func, indexInterferences, copies, best) IN
            /\ handed' = <<best>>
            /\ indices' = r.indices
            /\ removedCopies' = r.removedCopies
  /\ pc' = "learned"
  /\ UNCHANGED <<func, indexInterferences, copies, population, first, liveVars, coalVars, passVars>>

NextOrders == PickIndices \/ MakeRandom \/ MakeMixture \/ LearnerPicks

SpecOrders == InitOrders /\ [][NextOrders]_vars

-----------------------------------------------------------------------------
(* The CFG of a function. func.actions[b] is the action list of basic block *)
(* b and func.out[b] its successors; block 1 is the entry. An action is a   *)
(* record with what ("get" or "set") and the local index.                   *)

Blocks(f) == DOMAIN f.actions
Entry == 1

\* CFGWalker::findLiveBlocks: the blocks reachable from the entry
RECURSIVE ReachableFrom(_, _)
ReachableFrom(f, S) ==
  LET next == S \cup UNION {f.out[b] : b \in S}
  IN IF next = S THEN S ELSE ReachableFrom(f, next)

liveBlocks(f) == IF Blocks(f) = {} THEN {} ELSE ReachableFrom(f, {Entry})

\* CFGWalker::unlinkDeadBlocks: the edges that remain are those between live blocks
Out(f, b) == IF b \in liveBlocks(f) THEN f.out[b] \cap liveBlocks(f) ELSE {}
In(f, b) == IF b \in liveBlocks(f) THEN {a \in liveBlocks(f) : b \in f.out[a]} ELSE {}

isGet(action) == action.what = "get"
isSet(action) == action.what = "set"

-----------------------------------------------------------------------------
(* support/sorted_vector.h: a sorted vector without duplicates, held here   *)
(* as the set of its elements (two such vectors are equal exactly when      *)
(* their sets are).                                                         *)

\* (mutation) the branch for an element of both operands advances without storing it
merge_DropCommon(a, b) == (a \ b) \cup (b \ a)

\* SortedVector::merge
merge(a, b) == a \cup b

\* SortedVector::insert and SortedVector::erase
insert(a, x) == a \cup {x}
erase(a, x) == a \ {x}

-----------------------------------------------------------------------------
(* LivenessWalker::flowIndexLiveness                                        *)

\* scanLivenessThroughActions: from the last action towards the front
RECURSIVE scanLivenessThroughActions(_, _, _)
scanLivenessThroughActions(actions, i, live) ==
  IF i < 1 THEN live
  ELSE scanLivenessThroughActions(actions, i - 1,
         IF isGet(actions[i]) THEN insert(live, actions[i].index)
         ELSE IF isSet(actions[i]) THEN erase(live, actions[i].index)
         ELSE live)

\* mergeStartsAndCheckChange: the merge of the starts of a non-empty list of blocks
RECURSIVE mergeStarts(_, _)
mergeStarts(blocks, starts) ==
  LET b == CHOOSE x \in blocks : \A y \in blocks : x <= y
  IN IF blocks = {b} THEN starts[b]
     ELSE merge(starts[b], mergeStarts(blocks \ {b}, starts))

\* the state before the loop (lines 196-202): every live block queued and scanned once
LiveStart(f) ==
  [ start |-> Tabulated([b \in Blocks(f) |->
                 IF b \in liveBlocks(f)
                 THEN scanLivenessThroughActions(f.actions[b], Len(f.actions[b]), {})
                 ELSE {}]),
    end |-> [b \in Blocks(f) |-> {}],
    queue |-> liveBlocks(f),
    ok |-> TRUE ]

\* (mutation) only the first predecessor is queued again
Requeue_First(ins) == IF ins = {} THEN {} ELSE {CHOOSE x \in ins : \A y \in ins : x <= y}

\* the predecessors put back into the queue when the start of a block changed (lines 218-220)
Requeue(ins) == ins

\* (mutation) the start is taken as changed whatever the rescan gave
StartChanged_Always(old, live) == TRUE

\* the test that decides whether the predecessors need recomputation (line 215)
StartChanged(old, live) == old /= live

\* one iteration of the loop (lines 205-221) for the block curr taken from the queue;
\* ok turns FALSE when one of the two size assertions fails
LiveStep(f, st, curr) ==
  LET q == st.queue \ {curr}
      outs == Out(f, curr)
      live == IF outs = {} THEN {} ELSE mergeStarts(outs, st.start)
      changed == outs /= {} /\ st.end[curr] /= live
      rescanned == scanLivenessThroughActions(f.actions[curr], Len(f.actions[curr]), live)
  IN IF ~changed THEN [st EXCEPT !.queue = q]
     ELSE IF ~(Cardinality(st.end[curr]) < Cardinality(live))
     THEN [st EXCEPT !.queue = q, !.ok = FALSE]
     ELSE IF ~StartChanged(st.start[curr], rescanned)
     THEN [st EXCEPT !.queue = q, !.end[curr] = live]
     ELSE IF ~(Cardinality(st.start[curr]) < Cardinality(rescanned))
     THEN [st EXCEPT !.queue = q, !.end[curr] = live, !.ok = FALSE]
     ELSE [st EXCEPT !.queue = q \cup Requeue(In(f, curr)), !.end[curr] = live,
                     !.start[curr] = rescanned]

-----------------------------------------------------------------------------
(* SpecLive: flowIndexLiveness on every small CFG, one queue pop per step.  *)

LiveLocals == 0 .. 1
LiveActionKinds == {[what |-> w, index |-> i] : w \in {"get", "set"}, i \in LiveLocals}

RECURSIVE SeqsUpTo(_, _)
SeqsUpTo(S, n) ==
  IF n = 0 THEN {<<>>}
  ELSE LET shorter == SeqsUpTo(S, n - 1)
       IN shorter \cup {Append(q, x) : q \in {r \in shorter : Len(r) = n - 1}, x \in S}

\* the action lists of nb blocks, with at most MaxActions actions in all
RECURSIVE BlockBodies(_, _)
BlockBodies(nb, budget) ==
  IF nb = 0 THEN {<<>>}
  ELSE UNION {{Append(rest, body) : rest \in BlockBodies(nb - 1, budget - Len(body))} :
              body \in SeqsUpTo(LiveActionKinds, budget)}

\* the entry has no predecessor: a loop starts a block of its own
LiveGraphs(nb) ==
  {o \in [1 .. nb -> SUBSET (1 .. nb)] : \A b \in 1 .. nb : Entry \notin o[b]}

LiveFuncs ==
  UNION {{[numLocals |-> 2, numParams |-> 0, types |-> [i \in LiveLocals |-> "i32"],
           actions |-> a, out |-> o] :
            a \in BlockBodies(nb, MaxActions), o \in LiveGraphs(nb)} : nb \in 1 .. MaxBlocks}

InitLive ==
  /\ func \in LiveFuncs
  /\ pc = "start"
  /\ indexInterferences = <<>>
  /\ copies = <<>>
  /\ handed = <<>>
  /\ indices = NoIndices
  /\ removedCopies = 0
  /\ population = {}
  /\ first = TRUE
  /\ startIndexes = [b \in Blocks(func) |-> {}]
  /\ endIndexes = [b \in Blocks(func) |-> {}]
  /\ queue = {}
  /\ startSets = <<>>
  /\ endSets = <<>>
  /\ getSetses = <<>>
  /\ equivalenceClasses = <<>>
  /\ ir = <<>>
  /\ unneeded = {}
  /\ changesDone = {}
  /\ module = <<>>
  /\ counts = <<>>
  /\ scanned = <<>>

\* lines 196-202
LiveBegin ==
  /\ pc = "start"
  /\ LET st == LiveStart(func) IN
       /\ startIndexes' = st.start
       /\ endIndexes' = st.end
       /\ queue' = st.queue
  /\ pc' = "flow"
  /\ UNCHANGED <<func, pickVars, coalVars, passVars>>

\* one iteration of the while loop. queue.begin() is the block at the lowest address,
\* which is any of the queued blocks
LivePop ==
  /\ pc = "flow"
  /\ queue /= {}
  /\ \E curr \in queue :
       LET st == LiveStep(func, [start |-> startIndexes, end |-> endIndexes,
                                 queue |-> queue, ok |-> TRUE], curr) IN
         /\ startIndexes' = st.start
         /\ endIndexes' = st.end
         /\ queue' = st.queue
         /\ pc' = IF st.ok THEN "flow" ELSE "failed"
  /\ UNCHANGED <<func, pickVars, coalVars, passVars>>

\* the loop ends when the queue is empty
LiveEnd ==
  /\ pc = "flow"
  /\ queue = {}
  /\ pc' = "done"
  /\ UNCHANGED <<func, pickVars, liveVars, coalVars, passVars>>

NextLive == LiveBegin \/ LivePop \/ LiveEnd

SpecLive == InitLive /\ [][NextLive]_vars

\* The CFGs termination is checked on: dead blocks never enter the queue, and the
\* two locals are interchangeable, so every block is live and the first action of
\* the function, if any, is on local 0.
FirstActionOnLocal0(f) ==
  \A b \in Blocks(f) :
    (f.actions[b] /= <<>> /\ \A a \in 1 .. (b - 1) : f.actions[a] = <<>>)
      => f.actions[b][1].index = 0

InitLiveFair ==
  /\ InitLive
  /\ liveBlocks(func) = Blocks(func)
  /\ FirstActionOnLocal0(func)

\* the loop keeps running while there is work
SpecLiveFair == InitLiveFair /\ [][NextLive]_vars /\ WF_vars(NextLive)

-----------------------------------------------------------------------------
(* The function body the coalescer walks. Its actions carry, besides what   *)
(* and index, what applyIndices and the Copies and Equivalences classes     *)
(* read from the SetLocal node itself:                                      *)
(*   val  the kind of the value of a set: "get" (a GetLocal: the action     *)
(*        right before the set, as the walk is in post-order), "tee" (a tee *)
(*        SetLocal: the action right before the set), "const" (a literal)   *)
(*        or "call" (anything else; evaluating it has side effects);        *)
(*        "none" for a get;                                                 *)
(*   tee  SetLocal::isTee: the parent of the set uses its value.            *)
(* A node (a GetLocal or a SetLocal) is named <<block, position>>.          *)

GetAction(i) == [what |-> "get", index |-> i, val |-> "none", tee |-> FALSE]
SetAction(i, v, t) == [what |-> "set", index |-> i, val |-> v, tee |-> t]

\* InstrumentExplicitSets: a set of a fake call for each parameter and of a zero for
\* each other local, in index order, before the body
Instrument(f) ==
  [f EXCEPT !.actions[Entry] =
     [k \in 1 .. f.numLocals |->
        SetAction(k - 1, IF k - 1 \in Params(f) THEN "call" ELSE "const", FALSE)] \o @]

Act(f, n) == f.actions[n[1]][n[2]]
NodesIn(f, S) == UNION {{<<b, k>> : k \in 1 .. Len(f.actions[b])} : b \in S}
SetsIn(f, S) == {n \in NodesIn(f, S) : isSet(Act(f, n))}
GetsIn(f, S) == {n \in NodesIn(f, S) : isGet(Act(f, n))}

\* the node that is the value of set n when that value is a get or a tee
valueNode(n) == <<n[1], n[2] - 1>>

\* the order of the nodes in basicBlocks and their action lists
NodeLess(m, n) == m[1] < n[1] \/ (m[1] = n[1] /\ m[2] < n[2])

\* the CFG as the coalescer holds it after findLiveBlocks and unlinkDeadBlocks: the live
\* blocks, their edges, and the sets and gets in them
linked(f) ==
  [ live |-> liveBlocks(f),
    out |-> Tabulated([b \in Blocks(f) |-> Out(f, b)]),
    in |-> Tabulated([b \in Blocks(f) |-> In(f, b)]),
    sets |-> SetsIn(f, liveBlocks(f)),
    gets |-> GetsIn(f, liveBlocks(f)) ]

-----------------------------------------------------------------------------
(* LivenessWalker::doWalkFunction after the CFG is built.                   *)

\* flowIndexLiveness run to its end. queue.begin() is taken as the lowest block: the
\* sets at the end do not depend on which queued block is popped
RECURSIVE LiveLoop(_, _)
LiveLoop(f, st) ==
  IF st.queue = {} THEN st
  ELSE LiveLoop(f, LiveStep(f, st, CHOOSE b \in st.queue : \A c \in st.queue : b <= c))

flowIndexLiveness(f) == LiveLoop(f, LiveStart(f))

\* indexSets when the first loop of flowSetLiveness is done with block b (lines 226-234).
\* The map is declared before the loop, so it holds for index i the last set of i in the
\* live blocks up to b
indexSetsAt(f, g, b, i) ==
  IF \A n \in g.sets : ~(n[1] <= b /\ Act(f, n).index = i) THEN {}
  ELSE {CHOOSE n \in g.sets :
          /\ n[1] <= b /\ Act(f, n).index = i
          /\ \A m \in g.sets : (m[1] <= b /\ Act(f, m).index = i) => (m = n \/ NodeLess(m, n))}

\* endSets after the first loop (lines 236-242)
endSetsOfOwn(f, g, endIdx) ==
  Tabulated([b \in Blocks(f) |->
     IF b \in g.live THEN UNION {indexSetsAt(f, g, b, i) : i \in endIdx[b]} ELSE {}])

\* blockIndexesSet (lines 247-255): the indexes set in a block
blockIndexesSet(f, b) == {Act(f, n).index : n \in SetsIn(f, {b})}

\* lines 276-281: a set of index i that entered block x goes on to its end
flowsThrough(f, endIdx, x, i) == i \notin blockIndexesSet(f, x) /\ i \in endIdx[x]

\* lines 265-285: the blocks the flow of a set of index i enters, S being those entered
\* so far and next those with the successors of the ones it went through
flowStep(f, g, endIdx, i, S) ==
  S \cup UNION {g.out[x] : x \in {y \in S : flowsThrough(f, endIdx, y, i)}}

RECURSIVE flowSet(_, _, _, _, _, _)
flowSet(f, g, endIdx, i, S, next) ==
  IF next = S THEN S ELSE flowSet(f, g, endIdx, i, next, flowStep(f, g, endIdx, i, next))

\* the blocks each set that is live at the end of its own block enters (lines 259-264)
enteredBlocks(f, g, endIdx, own) ==
  Tabulated([n \in {m \in g.sets : m \in own[m[1]]} |->
     flowSet(f, g, endIdx, Act(f, n).index, g.out[n[1]],
             flowStep(f, g, endIdx, Act(f, n).index, g.out[n[1]]))])

flowedSets(f, endIdx, own, entered) ==
  [ startSets |-> Tabulated([b \in Blocks(f) |-> {n \in DOMAIN entered : b \in entered[n]}]),
    endSets |-> Tabulated([b \in Blocks(f) |->
                   own[b] \cup {n \in DOMAIN entered :
                                  /\ b \in entered[n]
                                  /\ flowsThrough(f, endIdx, b, Act(f, n).index)}]) ]

flowSetsFrom(f, g, endIdx, own) ==
  flowedSets(f, endIdx, own, enteredBlocks(f, g, endIdx, own))

flowSetLiveness(f, g, endIdx) == flowSetsFrom(f, g, endIdx, endSetsOfOwn(f, g, endIdx))

-----------------------------------------------------------------------------
(* GetSets, SetGets and Copies of CoalesceLocals.                           *)

\* the last set of index i before position k of block b, if any
lastSetBefore(f, b, k, i) ==
  {<<b, m>> : m \in {j \in 1 .. (k - 1) :
                       /\ isSet(f.actions[b][j]) /\ f.actions[b][j].index = i
                       /\ \A l \in (j + 1) .. (k - 1) :
                            ~(isSet(f.actions[b][l]) /\ f.actions[b][l].index = i)}}

\* (mutation) the sets live at the start of the block are not taken
GetSets_OwnBlock(f, g, starts) ==
  Tabulated([n \in g.gets |-> lastSetBefore(f, n[1], n[2], Act(f, n).index)])

\* GetSets: the sets of its index live at the start of the block, or the last set of its
\* index before the get in the block
GetSets(f, g, starts) ==
  Tabulated([n \in g.gets |->
     IF lastSetBefore(f, n[1], n[2], Act(f, n).index) = {}
     THEN {s \in starts[n[1]] : Act(f, s).index = Act(f, n).index}
     ELSE lastSetBefore(f, n[1], n[2], Act(f, n).index)])

\* SetGets: the inverse; a set no get is reached by has no gets
SetGets(f, gs) ==
  Tabulated([s \in SetsIn(f, Blocks(f)) |-> {n \in DOMAIN gs : s \in gs[n]}])

\* Copies::getCopiedIndexes of the value of set n
getCopiedIndexes(f, n) ==
  IF Act(f, n).val \in {"get", "tee"} THEN {Act(f, valueNode(n)).index} ELSE {}

\* CFGWalker::loopTops: a loop top is entered first from the block before the loop, made
\* before it, and then by the branches to it, which come from the loop itself
loopTops(g) == {t \in g.live : \E a \in g.in[t] : a >= t}
backedgesInto(g, t) == {a \in g.in[t] : a >= t}

\* the blocks that branch unconditionally back to a loop top (lines 161-166), each with
\* the loop top
arrivingBlocks(g) ==
  {e \in g.live \X g.live :
     /\ e[2] \in loopTops(g) /\ e[1] \in backedgesInto(g, e[2])
     /\ Cardinality(g.out[e[1]]) <= 1}

\* the sets that copy between the two indexes of pair p
copying(f, g, p) ==
  {n \in g.sets : \E j \in getCopiedIndexes(f, n) : SymmetricPair(Act(f, n).index, j) = p}

\* two units for each copy, one more for a copy in an arriving block
noteCopies(f, g, arriving) ==
  Tabulated([p \in CanonicalPairs(f.numLocals) |->
     2 * Cardinality(copying(f, g, p))
       + Cardinality({x \in arriving \X copying(f, g, p) : x[2][1] = x[1][1]})])

\* Copies::compute
computeCopies(f, g) == noteCopies(f, g, arrivingBlocks(g))

-----------------------------------------------------------------------------
(* Equivalences::compute.                                                   *)

\* lines 295-314: the direct equivalences a set adds (its value is a tee, or a get that
\* one set reaches) and the sets it merges (its value is a get several sets reach).
\* The values here have no fallthrough to look through
directOf(f, gs, n) ==
  IF Act(f, n).val = "tee" THEN {valueNode(n)}
  ELSE IF Act(f, n).val = "get" /\ Cardinality(gs[valueNode(n)]) = 1 THEN gs[valueNode(n)]
  ELSE {}

mergesInOf(f, gs, n) ==
  IF Act(f, n).val = "get" /\ Cardinality(gs[valueNode(n)]) > 1 THEN gs[valueNode(n)] ELSE {}

\* Node::addDirect links both nodes
bothWays(oneWay) ==
  Tabulated([n \in DOMAIN oneWay |-> oneWay[n] \cup {m \in DOMAIN oneWay : n \in oneWay[m]}])

\* lines 323-351, one floodfill: S are the nodes given the current class so far. A node
\* popped pushes its directs, and a merge node not known yet all of whose incoming
\* merges have the current class
floodStep_KnownMerges(direct, mergesIn, knownBefore, S) ==
  S \cup UNION {direct[n] : n \in S}
    \cup {m \in DOMAIN mergesIn : mergesIn[m] /= {} /\ mergesIn[m] \subseteq S}

floodStep(direct, mergesIn, knownBefore, S) ==
  S \cup UNION {direct[n] : n \in S}
    \cup {m \in DOMAIN mergesIn :
            m \notin knownBefore /\ mergesIn[m] /= {} /\ mergesIn[m] \subseteq S}

RECURSIVE floodFill(_, _, _, _, _)
floodFill(direct, mergesIn, knownBefore, S, next) ==
  IF next = S THEN S
  ELSE floodFill(direct, mergesIn, knownBefore, next,
                 floodStep(direct, mergesIn, knownBefore, next))

\* the first node, in the order the nodes were made, that has no class yet: the blocks
\* come as the iteration over liveBlocks gave them (rank is a block's place in it), the
\* sets of a block in action order
firstUnknown(rank, classes) ==
  CHOOSE n \in DOMAIN classes :
    /\ classes[n] = 0
    /\ \A m \in DOMAIN classes :
         classes[m] = 0 => \/ m = n
                           \/ rank[n[1]] < rank[m[1]]
                           \/ (n[1] = m[1] /\ n[2] < m[2])

\* lines 318-352; ok turns FALSE when assert(!known(set)) fails
RECURSIVE floodAll(_, _, _, _, _, _)
RECURSIVE floodFrom(_, _, _, _, _, _, _)
floodAll(rank, direct, mergesIn, classes, currClass, ok) ==
  IF \A n \in DOMAIN classes : classes[n] /= 0 THEN [classes |-> classes, ok |-> ok]
  ELSE floodFrom(rank, direct, mergesIn, classes, currClass, ok,
                 floodFill(direct, mergesIn, {n \in DOMAIN classes : classes[n] /= 0},
                           {}, {firstUnknown(rank, classes)}))

floodFrom(rank, direct, mergesIn, classes, currClass, ok, S) ==
  floodAll(rank, direct, mergesIn,
           Tabulated([n \in DOMAIN classes |-> IF n \in S THEN currClass + 1 ELSE classes[n]]),
           currClass + 1, ok /\ \A n \in S : classes[n] = 0)

Equivalences(f, g, gs, rank) ==
  floodAll(rank, bothWays(Tabulated([n \in g.sets |-> directOf(f, gs, n)])),
           Tabulated([n \in g.sets |-> mergesInOf(f, gs, n)]), [n \in g.sets |-> 0], 0, TRUE)

-----------------------------------------------------------------------------
(* Interferences::compute.                                                  *)

\* maybeInterfere (lines 369-378)
maybeInterfere(f, classes, a, b) ==
  a /= b /\ Act(f, a).index /= Act(f, b).index /\ classes[a] /= classes[b]

\* lines 395-416: the scan of block b from action k towards the front. acc.pairs are the
\* pairs handed to maybeInterfere; acc.ok turns FALSE when the assertion that no other
\* set of the index is live at a set fails
RECURSIVE scanInterferences(_, _, _, _, _, _)
\* (mutation) a set stays live before it
scanInterferences_StaysLive(f, gs, b, k, live, acc) ==
  IF k < 1 THEN acc
  ELSE IF isGet(f.actions[b][k])
  THEN scanInterferences(f, gs, b, k - 1, live \cup gs[<<b, k>>],
         [acc EXCEPT !.pairs = @ \cup (gs[<<b, k>>] \X (live \cup gs[<<b, k>>]))])
  ELSE scanInterferences(f, gs, b, k - 1, live,
         [acc EXCEPT !.ok = @ /\ \A o \in live \ {<<b, k>>} :
                                   Act(f, o).index /= f.actions[b][k].index])

scanInterferences(f, gs, b, k, live, acc) ==
  IF k < 1 THEN acc
  ELSE IF isGet(f.actions[b][k])
  THEN scanInterferences(f, gs, b, k - 1, live \cup gs[<<b, k>>],
         [acc EXCEPT !.pairs = @ \cup (gs[<<b, k>>] \X (live \cup gs[<<b, k>>]))])
  ELSE scanInterferences(f, gs, b, k - 1, live \ {<<b, k>>},
         [acc EXCEPT !.ok = @ /\ \A o \in live \ {<<b, k>>} :
                                   Act(f, o).index /= f.actions[b][k].index])

\* lines 388-417: every live block scanned, starting from its endSets
scanBlocks(f, g, ends, gs) ==
  Tabulated([b \in g.live |->
     scanInterferences(f, gs, b, Len(f.actions[b]), ends[b],
                       [pairs |-> ends[b] \X ends[b], ok |-> TRUE])])

\* setInterferences after the scans
interferingSets(f, g, classes, scans) ==
  {p \in UNION {scans[b].pairs : b \in g.live} : maybeInterfere(f, classes, p[1], p[2])}

\* (mutation) no zero init is seen as used
usedZeroInits_None(f, sg) == {}

\* lines 447-450: the locals whose zero init, the set at their index in the entry block,
\* has gets
usedZeroInits(f, sg) == {i \in Vars(f) : sg[<<Entry, i + 1>>] /= {}}

\* lines 426-456: indexInterferences from the interfering sets, and the used zero inits
\* against the parameters
interferingIndexes(f, pairs, zeros) ==
  Tabulated([i \in Locals(f) |->
     {Act(f, p[2]).index : p \in {q \in pairs : Act(f, q[1]).index = i}}
       \cup {Act(f, p[1]).index : p \in {q \in pairs : Act(f, q[2]).index = i}}
       \cup (IF i \in zeros THEN Params(f) ELSE {})
       \cup (IF i \in Params(f) THEN zeros ELSE {})])

interferencesOf(f, g, sg, classes, scans) ==
  [ indexInterferences |->
      interferingIndexes(f, interferingSets(f, g, classes, scans), usedZeroInits(f, sg)),
    ok |-> \A b \in g.live : scans[b].ok ]

Interferences(f, g, ends, gs, sg, classes) ==
  interferencesOf(f, g, sg, classes, scanBlocks(f, g, ends, gs))

-----------------------------------------------------------------------------
(* CoalesceLocals::applyIndices and LivenessAction::removeSet.              *)

\* The value of set n when applyIndices comes to it, and whether it then hands n to
\* removeSet (lines 674-682). The actions of a block are taken in order, so a tee that
\* is the value of n was handled before n: when removeSet replaced it by its own value,
\* that value is the value of n now. index is the index the value reads or writes,
\* already renamed
RECURSIVE valueAtApply(_, _, _, _)
RECURSIVE isRemoved(_, _, _, _)
valueAtApply(f, ind, sg, n) ==
  IF Act(f, n).val = "get"
  THEN [kind |-> "get", index |-> ind[Act(f, valueNode(n)).index]]
  ELSE IF Act(f, n).val = "tee"
  THEN IF isRemoved(f, ind, sg, valueNode(n))
       THEN valueAtApply(f, ind, sg, valueNode(n))
       ELSE [kind |-> "tee", index |-> ind[Act(f, valueNode(n)).index]]
  ELSE [kind |-> Act(f, n).val, index |-> -1]

isRemoved(f, ind, sg, n) ==
  \/ sg[n] = {}
  \/ /\ valueAtApply(f, ind, sg, n).kind = "get"
     /\ valueAtApply(f, ind, sg, n).index = ind[Act(f, n).index]

\* removeSet (lines 75-87): what is left at the origin of the set: its value when the
\* set is a tee, a nop (the value goes with the set) otherwise
removeSet(action) == IF action.tee THEN "value" ELSE "nop"

\* the IR after the loop of applyIndices: of each node its index and what is at its
\* origin now ("get", "set", or what removeSet left). ok is FALSE when the cast to
\* GetLocal in removeSet is applied to a value that is no GetLocal
applyIndices(f, ind, sg) ==
  [ ir |-> [n \in NodesIn(f, Blocks(f)) |->
              [index |-> ind[Act(f, n).index],
               state |-> IF isGet(Act(f, n)) THEN "get"
                         ELSE IF isRemoved(f, ind, sg, n) THEN removeSet(Act(f, n))
                         ELSE "set"]],
    ok |-> \A n \in SetsIn(f, Blocks(f)) :
             (Act(f, n).tee /\ isRemoved(f, ind, sg, n))
               => valueAtApply(f, ind, sg, n).kind = "get" ]

-----------------------------------------------------------------------------
(* CoalesceLocals::doWalkFunction (lines 474-511), phase after phase: each  *)
(* operator takes what the phases before it computed and adds its own.      *)

\* LivenessWalker::doWalkFunction: li is what flowIndexLiveness left
walked(f, g, li) ==
  [ f |-> f, g |-> g, li |-> li, ls |-> flowSetLiveness(f, g, li.end) ]

\* lines 487-495: Copies, GetSets and SetGets
withGetSets(w, gs) ==
  [ f |-> w.f, g |-> w.g, li |-> w.li, ls |-> w.ls, gs |-> gs,
    sg |-> SetGets(w.f, gs), cp |-> computeCopies(w.f, w.g) ]

analysed(w) == withGetSets(w, GetSets(w.f, w.g, w.ls.startSets))

\* everything up to the interferences, for the instrumented function f
analyse(f) == analysed(walked(f, linked(f), flowIndexLiveness(f)))

\* lines 505-510: pickIndices and applyIndices
withIndices(a, eq, inter, picked) ==
  [ a |-> a, eq |-> eq, inter |-> inter, picked |-> picked,
    applied |-> applyIndices(a.f, picked.indices, a.sg) ]

withInterferences(a, eq, inter) ==
  withIndices(a, eq, inter, pickIndices(a.f, inter.indexInterferences, a.cp))

\* line 499: Interferences::compute, which computes the equivalences first
withEquivalences(a, eq) ==
  withInterferences(a, eq, Interferences(a.f, a.g, a.ls.endSets, a.gs, a.sg, eq.classes))

\* the rest of doWalkFunction when the iteration over liveBlocks takes the order rank
coalesce(a, rank) == withEquivalences(a, Equivalences(a.f, a.g, a.gs, rank))

\* no assertion failed on the way
asserted(r) == r.a.li.ok /\ r.eq.ok /\ r.inter.ok /\ r.applied.ok

-----------------------------------------------------------------------------
(* Spec: CoalesceLocals::doWalkFunction on small functions.                 *)

\* statements of the functions: a use of a local, a set from a call, a copy, a set
\* whose value is a tee of a call
Use(i) == <<GetAction(i)>>
Def(i) == <<SetAction(i, "call", FALSE)>>
Copy(i, j) == <<GetAction(j), SetAction(i, "get", FALSE)>>
Nest(i, j) == <<SetAction(j, "call", TRUE), SetAction(i, "tee", FALSE)>>

\* the orders the iteration over the unordered set liveBlocks can take, as far as they
\* matter: the place of each live block that holds a set among those blocks (a block
\* without sets makes no node)
IterationOrders(a) ==
  {r \in [{n[1] : n \in a.g.sets} -> 1 .. Cardinality({n[1] : n \in a.g.sets})] :
     \A b, c \in DOMAIN r : b /= c => r[b] /= r[c]}

\* the CFGs: one block; an if without else; an if with else; a loop
CoalShapes ==
  { <<{}>>,
    <<{2, 3}, {3}, {}>>,
    <<{2, 3}, {4}, {4}, {}>>,
    <<{2}, {2, 3}, {}>> }

\* what a block can hold
CoalBodies ==
  { <<>>,
    Use(1),
    Use(2),
    Def(1),
    Copy(1, 0),
    Copy(2, 1) \o Use(1) \o Use(2),
    Nest(2, 1) }

\* the bodies of the blocks of a CFG; the condition of an if with else is all its first
\* block holds
CoalActions(o) ==
  {a \in [1 .. Len(o) -> CoalBodies] : Len(o) = 4 => a[Entry] = <<>>}

\* functions of three locals of one type, the first of them a parameter or not
CoalFuncs ==
  UNION {{[numLocals |-> MaxLocals, numParams |-> p,
           types |-> [i \in 0 .. (MaxLocals - 1) |-> "i32"],
           actions |-> a, out |-> o] :
            p \in 0 .. 1, a \in CoalActions(o)} : o \in CoalShapes}

Init ==
  /\ func \in CoalFuncs
  /\ pc = "ready"
  /\ indexInterferences = <<>>
  /\ copies = <<>>
  /\ handed = <<>>
  /\ indices = NoIndices
  /\ removedCopies = 0
  /\ population = {}
  /\ first = TRUE
  /\ startIndexes = <<>>
  /\ endIndexes = <<>>
  /\ queue = {}
  /\ startSets = <<>>
  /\ endSets = <<>>
  /\ getSetses = <<>>
  /\ equivalenceClasses = <<>>
  /\ ir = <<>>
  /\ unneeded = {}
  /\ changesDone = {}
  /\ module = <<>>
  /\ counts = <<>>
  /\ scanned = <<>>

\* the state doWalkFunction leaves: r is what it computed. An assertion that failed
\* ended a build with assertions ("aborted"); a build without them went on
Walked(r) ==
  \E aborts \in (IF asserted(r) THEN {FALSE} ELSE {FALSE, TRUE}) :
    /\ startIndexes' = r.a.li.start
    /\ endIndexes' = r.a.li.end
    /\ queue' = r.a.li.queue
    /\ startSets' = r.a.ls.startSets
    /\ endSets' = r.a.ls.endSets
    /\ copies' = r.a.cp
    /\ getSetses' = r.a.gs
    /\ equivalenceClasses' = r.eq.classes
    /\ indexInterferences' = r.inter.indexInterferences
    /\ handed' = r.picked.handed
    /\ indices' = r.picked.indices
    /\ removedCopies' = r.picked.removedCopies
    /\ ir' = IF aborts THEN <<>> ELSE r.applied.ir
    /\ pc' = IF aborts THEN "aborted" ELSE "done"

\* the iteration over liveBlocks takes any order
WalkedInSomeOrder(a) == \E rank \in IterationOrders(a) : Walked(coalesce(a, rank))

\* CoalesceLocals::doWalkFunction
DoWalkFunction ==
  /\ pc = "ready"
  /\ WalkedInSomeOrder(analyse(Instrument(func)))
  /\ UNCHANGED <<func, population, first, passVars>>

Next == DoWalkFunction

Spec == Init /\ [][Next]_vars

-----------------------------------------------------------------------------
(* Claims about the picking of indices.                                    *)

SharesIndex(i, j) == i /= j /\ indices[i] = indices[j]

\* C1: after pickIndicesFromOrder, for every interference relation, types and order
\* that leaves the parameters in place, two distinct locals that received the same
\* new index do not interfere and have the same type.
C1_MergedDoNotInterfere ==
  pc = "picked" =>
    \A i \in Locals(func), j \in Locals(func) :
      SharesIndex(i, j) =>
        /\ j \notin indexInterferences[i]
        /\ getLocalType(func, i) = getLocalType(func, j)

\* C1 happens: two locals were merged by a pick from a single order, in a function
\* that has interferences and both types
C1_Witness ==
  /\ pc = "picked"
  /\ Len(handed) = 1
  /\ \E i \in Locals(func), j \in Locals(func) : SharesIndex(i, j)
  /\ \E k \in Locals(func) : indexInterferences[k] /= {}
  /\ \E i \in Locals(func), j \in Locals(func) : func.types[i] /= func.types[j]

\* C4: every order handed to pickIndicesFromOrder, by pickIndices and by the
\* learner's makeRandom and makeMixture, is a permutation of the locals that leaves
\* the parameters in place: the assertion order[i] == i holds, and every parameter
\* keeps its index.
C4_HandedOrdersKeepParams ==
  /\ pc /= "failed"
  /\ \A k \in DOMAIN handed :
       /\ IsPermutation(handed[k], func.numLocals)
       /\ \A i \in Params(func) : handed[k][i] = i
  /\ pc \in {"picked", "learning"} => \A i \in Params(func) : indices[i] = i

\* C4 happens: the learner handed over an order that moves declared variables, in a
\* function with a parameter, and pickIndices handed over its two orders
C4_Witness ==
  /\ func.numParams >= 1
  /\ \/ /\ pc = "learning"
        /\ Cardinality(population) > 1
        /\ handed[1] /= makeIdentity(func.numLocals)
     \/ /\ pc = "picked"
        /\ Len(handed) = 2
        /\ handed[1] /= makeIdentity(func.numLocals)

\* C5: for every order, the new indices are exactly 0..max with max < numLocals, so
\* there are no more locals than before, and applyIndices gives a type to every
\* declared-variable slot that remains.
C5_IndicesContiguous ==
  (pc = "picked" /\ func.numLocals > 0) =>
    LET max == MaxOf(indices)
        newVars == applyIndicesVars(func, indices)
    IN /\ {indices[i] : i \in Locals(func)} = 0 .. max
       /\ max < func.numLocals
       /\ DOMAIN newVars = func.numParams .. max
       /\ \A s \in DOMAIN newVars : newVars[s] \in Types

\* C5 happens: locals were coalesced and a declared-variable slot remains
C5_Witness ==
  /\ pc = "picked"
  /\ func.numLocals = 3
  /\ MaxOf(indices) < func.numLocals - 1
  /\ MaxOf(indices) >= func.numParams

-----------------------------------------------------------------------------
(* Claims about flowIndexLiveness.                                          *)

\* the first scan of a block, with nothing live at its end
FirstScan(b) == scanLivenessThroughActions(func.actions[b], Len(func.actions[b]), {})

\* the blocks on a cycle of live edges
RECURSIVE OutClosure(_, _)
OutClosure(f, S) ==
  LET next == S \cup UNION {Out(f, b) : b \in S}
  IN IF next = S THEN S ELSE OutClosure(f, next)
OnCycle(f, b) == b \in OutClosure(f, Out(f, b))

\* C6: in flowIndexLiveness a recomputed end set, and a rescanned start set, that
\* differs from the stored one is strictly larger: the sets of a block only grow,
\* their sizes never decrease and neither size assertion fails.
C6_LivenessOnlyGrows ==
  /\ [](pc /= "failed")
  /\ [][\A b \in Blocks(func) :
          /\ startIndexes[b] \subseteq startIndexes'[b]
          /\ endIndexes[b] \subseteq endIndexes'[b]
          /\ Cardinality(startIndexes[b]) <= Cardinality(startIndexes'[b])
          /\ Cardinality(endIndexes[b]) <= Cardinality(endIndexes'[b])]_vars

\* C6 happens: the flow has ended and gave a block a start set larger than its
\* first scan, from an end set merged from two successors
C6_Witness ==
  /\ pc = "done"
  /\ \E b \in liveBlocks(func) :
       /\ FirstScan(b) /= startIndexes[b]
       /\ Cardinality(endIndexes[b]) = 2
       /\ Cardinality(Out(func, b)) = 2

\* C7: flowIndexLiveness terminates on every CFG, loops included: the queue
\* becomes empty and the loop is left.
C7_FlowTerminates == <>(pc = "done")

\* C7 happens: the flow has ended on a CFG with a cycle through which liveness flowed
C7_Witness ==
  /\ pc = "done"
  /\ \E b \in liveBlocks(func) :
       OnCycle(func, b) /\ endIndexes[b] /= {} /\ FirstScan(b) /= startIndexes[b]

\* a read of i that no write of i precedes in block b
UpwardExposed(f, b, i) ==
  \E k \in 1 .. Len(f.actions[b]) :
    /\ isGet(f.actions[b][k]) /\ f.actions[b][k].index = i
    /\ \A m \in 1 .. (k - 1) : ~(isSet(f.actions[b][m]) /\ f.actions[b][m].index = i)

WritesIndex(f, b, i) ==
  \E k \in 1 .. Len(f.actions[b]) : isSet(f.actions[b][k]) /\ f.actions[b][k].index = i

\* the blocks a path from the beginning of block b reaches before any write of i
RECURSIVE ReachedUnwritten(_, _, _)
ReachedUnwritten(f, i, S) ==
  LET next == S \cup UNION {Out(f, b) : b \in {x \in S : ~WritesIndex(f, x, i)}}
  IN IF next = S THEN S ELSE ReachedUnwritten(f, i, next)

\* some path from the beginning of b reaches a read of i with no earlier write of i
LiveOnSomePath(f, b, i) ==
  \E x \in ReachedUnwritten(f, i, {b}) : UpwardExposed(f, x, i)

\* C8: when flowIndexLiveness has finished, for every live block B, i is in
\* startIndexes(B) exactly when some CFG path from the beginning of B reaches a read
\* of i with no earlier write of i, and endIndexes(B) is the union of startIndexes
\* over the successors of B.
C8_LivenessExact ==
  pc = "done" =>
    \A b \in liveBlocks(func) :
      /\ \A i \in Locals(func) : i \in startIndexes[b] <=> LiveOnSomePath(func, b, i)
      /\ endIndexes[b] = UNION {startIndexes[x] : x \in Out(func, b)}

\* C8 happens: an index is live at the start of a block only through a path of two
\* edges or more
C8_Witness ==
  /\ pc = "done"
  /\ \E b \in liveBlocks(func), i \in Locals(func) :
       /\ i \in startIndexes[b]
       /\ ~UpwardExposed(func, b, i)
       /\ \A x \in Out(func, b) : ~UpwardExposed(func, x, i)

-----------------------------------------------------------------------------
(* Claims about CoalesceLocals::doWalkFunction.                             *)

\* the explicit sets InstrumentExplicitSets put before the body: they stand for the
\* values the locals hold when the function is entered
IsImplicit(f, n) == n[1] = Entry /\ n[2] <= f.numLocals

\* the node whose value node n is, if any: the set right after it that takes a get,
\* when n is a get, or a tee, when n is a set
ParentSet(f, n) ==
  {<<n[1], k>> : k \in {j \in {n[2] + 1} :
     /\ j <= Len(f.actions[n[1]])
     /\ isSet(f.actions[n[1]][j])
     /\ \/ f.actions[n[1]][j].val = "get" /\ isGet(Act(f, n))
        \/ f.actions[n[1]][j].val = "tee" /\ isSet(Act(f, n))}}

\* node n is still in the function: no set above it was turned into a nop
RECURSIVE Present(_, _)
Present(f, n) ==
  \A p \in ParentSet(f, n) : ir[p].state /= "nop" /\ Present(f, p)

\* the writes of the body that are still writes of the function
SurvivingWrites(f) ==
  {n \in SetsIn(f, liveBlocks(f)) : ~IsImplicit(f, n) /\ ir[n].state = "set" /\ Present(f, n)}

\* evaluating the value of set n has a side effect: it is a call, or a tee that is
\* still a write or has such a value itself
RECURSIVE ValueHasSideEffects(_, _)
ValueHasSideEffects(f, n) ==
  \/ Act(f, n).val = "call"
  \/ /\ Act(f, n).val = "tee"
     /\ ir[valueNode(n)].state = "set" \/ ValueHasSideEffects(f, valueNode(n))

\* no write of index i at the positions lo .. hi of block b
ClearOf(f, b, i, lo, hi) ==
  \A k \in lo .. hi : ~(isSet(f.actions[b][k]) /\ f.actions[b][k].index = i)

\* some path leads from right after node n to node m with no write of index i on the way
PathClear(f, i, n, m) ==
  \/ n[1] = m[1] /\ n[2] < m[2] /\ ClearOf(f, n[1], i, n[2] + 1, m[2] - 1)
  \/ /\ ClearOf(f, n[1], i, n[2] + 1, Len(f.actions[n[1]]))
     /\ m[1] \in ReachedUnwritten(f, i, Out(f, n[1]))
     /\ ClearOf(f, m[1], i, 1, m[2] - 1)

\* write w reaches read r in the function as it was
Reaches(f, w, r) ==
  Act(f, w).index = Act(f, r).index /\ PathClear(f, Act(f, w).index, w, r)

\* the same for the function as it is now: no surviving write, of those in alive, of
\* the new index s on the way
KeptIn(alive, b, s, lo, hi) ==
  \A k \in lo .. hi : ~(<<b, k>> \in alive /\ ir[<<b, k>>].index = s)

RECURSIVE ReachedKeeping(_, _, _, _)
ReachedKeeping(f, alive, s, S) ==
  LET next == S \cup UNION {Out(f, b) :
                  b \in {x \in S : KeptIn(alive, x, s, 1, Len(f.actions[x]))}}
  IN IF next = S THEN S ELSE ReachedKeeping(f, alive, s, next)

PathKeeps(f, alive, s, n, m) ==
  \/ n[1] = m[1] /\ n[2] < m[2] /\ KeptIn(alive, n[1], s, n[2] + 1, m[2] - 1)
  \/ /\ KeptIn(alive, n[1], s, n[2] + 1, Len(f.actions[n[1]]))
     /\ m[1] \in ReachedKeeping(f, alive, s, Out(f, n[1]))
     /\ KeptIn(alive, m[1], s, 1, m[2] - 1)

\* two writes the coalescer holds to write the same value
SameValue(a, b) == a = b \/ equivalenceClasses[a] = equivalenceClasses[b]

\* the writes that stand for the value new index s holds when the function is entered:
\* the parameter itself, or any zero
EntryValueOf(f, s) ==
  IF s \in Params(f) THEN {<<Entry, s + 1>>} ELSE {<<Entry, v + 1>> : v \in Vars(f)}

\* first half of C2
NoForeignWriteBetween(f, alive) ==
  \A w \in SetsIn(f, liveBlocks(f)), r \in GetsIn(f, liveBlocks(f)) :
    Reaches(f, w, r) =>
      \A x \in alive :
        ( /\ Act(f, x).index /= Act(f, w).index
          /\ ir[x].index = ir[w].index
          /\ PathClear(f, Act(f, w).index, w, x)
          /\ PathClear(f, Act(f, w).index, x, r) )
          => equivalenceClasses[x] = equivalenceClasses[w]

\* second half of C2: what a read that is still in the function can observe, a
\* surviving write of its new index or the value at entry, is the value of a write that
\* reached it
ReadsObserveReachingWrites(f, alive) ==
  \A r \in {g \in GetsIn(f, liveBlocks(f)) : Present(f, g)} :
    /\ \A x \in alive :
         (ir[x].index = ir[r].index /\ PathKeeps(f, alive, ir[r].index, x, r))
           => \E w \in SetsIn(f, liveBlocks(f)) : Reaches(f, w, r) /\ SameValue(x, w)
    /\ PathKeeps(f, alive, ir[r].index, <<Entry, f.numLocals>>, r)
         => \E w \in SetsIn(f, liveBlocks(f)), z \in EntryValueOf(f, ir[r].index) :
              Reaches(f, w, r) /\ SameValue(z, w)

CoalescingKeepsReads(f) ==
  NoForeignWriteBetween(f, SurvivingWrites(f)) /\ ReadsObserveReachingWrites(f, SurvivingWrites(f))

\* C2: after CoalesceLocals rewrote a function, on every path from a write w to a read
\* r that w reaches, no surviving write to another original local that now shares the
\* new index of w comes between w and r, unless it is in the equivalence class of w;
\* and so every read still observes the value of one of the writes that reached it.
C2_CoalescingKeepsReads == pc = "done" => CoalescingKeepsReads(Instrument(func))

\* the first half of C2 alone
C2_NoForeignWriteBetween ==
  pc = "done" => NoForeignWriteBetween(Instrument(func), SurvivingWrites(Instrument(func)))

DroppedWritesKeepValue(f) ==
  \A n \in SetsIn(f, Blocks(f)) :
    (~IsImplicit(f, n) /\ ir[n].state = "nop") => ~ValueHasSideEffects(f, n)

\* C3: whenever applyIndices drops a write (a copy of a local to itself after the
\* renaming, or a write no read is reached by), the evaluation of its value is kept: a
\* tee is replaced by its value whatever kind of expression that is (removeSet does not
\* fail on it), and a write that is no tee and whose value has side effects still
\* executes them.
C3_DroppedWriteKeepsValue ==
  /\ pc /= "aborted"
  /\ pc = "done" => DroppedWritesKeepValue(Instrument(func))

\* the place of each block with sets when the blocks are taken in the order of
\* basicBlocks
AscendingOrder(a) ==
  [b \in {n[1] : n \in a.g.sets} |-> Cardinality({c \in {n[1] : n \in a.g.sets} : c <= b})]

SamePartition(c1, c2) ==
  \A m, n \in DOMAIN c1 : (c1[m] = c1[n]) <=> (c2[m] = c2[n])

SameAsWalk(r) ==
  /\ SamePartition(equivalenceClasses, r.eq.classes)
  /\ indexInterferences = r.inter.indexInterferences
  /\ indices = r.picked.indices

SameAsInOrder(a) == SameAsWalk(coalesce(a, AscendingOrder(a)))

\* C9: the new indices CoalesceLocals chooses do not depend on the order in which the
\* unordered set of live blocks is iterated: whatever order a run took, it has the
\* equivalence classes, the interferences and the indices of the run that takes the
\* blocks in the order of basicBlocks, and so any two orders have the same.
C9_IterationOrderIrrelevant ==
  pc = "done" => SameAsInOrder(analyse(Instrument(func)))

\* the zero the function starts local v with reaches a read
ZeroInitReachesRead(v) == LiveOnSomePath(func, Entry, v)

NoParamIndex(ind) ==
  \A v \in Vars(func) : ZeroInitReachesRead(v) => ind[v] \notin Params(func)

\* C10: in a function with a parameter, for every order handed to pickIndicesFromOrder
\* with the interferences and copies doWalkFunction computed, the order pickIndices
\* keeps included, a declared variable whose zero initialization reaches a read is not
\* given the new index of a parameter.
C10_ZeroInitKeepsOffParams ==
  (pc = "done" /\ func.numParams >= 1) =>
    /\ NoParamIndex(indices)
    /\ \A order \in ValidOrders(func) :
         NoParamIndex(pickIndicesFromOrder(func, indexInterferences, copies, order).indices)

\* C10 happens: the zero of a variable is read, the parameter is never read and so
\* nothing but the zero init rule keeps the variable off its index
C10_Witness ==
  /\ pc = "done"
  /\ func.numParams >= 1
  /\ \E v \in Vars(func) :
       /\ ZeroInitReachesRead(v)
       /\ \A n \in GetsIn(func, Blocks(func)) : Act(func, n).index \notin Params(func)
       /\ indexInterferences[v] = Params(func)
       /\ indices[v] \notin Params(func)

-----------------------------------------------------------------------------
(* LocalGraph (ir/local-graph.h): for each get, the sets that reach it.     *)
(* Null is the nullptr set: the value the local holds when the function is  *)
(* entered (the argument of a parameter, the zero of a declared variable).  *)
(* Code that cannot be reached has its gets and sets too: nothing flows     *)
(* into it from the entry.                                                  *)

Null == <<0, 0>>

\* no set of index i at the positions lo .. hi of block b
unsetIn(f, b, i, lo, hi) ==
  \A k \in lo .. hi : ~(isSet(f.actions[b][k]) /\ f.actions[b][k].index = i)

\* the blocks whose beginning a value of index i reaches, flowing from the beginning of
\* the blocks S through the blocks that hold no set of i
flowUnsetStep(f, i, S) ==
  S \cup UNION {f.out[b] : b \in {x \in S : unsetIn(f, x, i, 1, Len(f.actions[x]))}}

RECURSIVE flowUnsetFrom(_, _, _, _)
flowUnsetFrom(f, i, S, next) ==
  IF next = S THEN S ELSE flowUnsetFrom(f, i, next, flowUnsetStep(f, i, next))

flowUnset(f, i, S) == flowUnsetFrom(f, i, S, flowUnsetStep(f, i, S))

\* the last set of index i before position k of block b, if any
lastSetIn(f, b, i, k) ==
  {<<b, j>> : j \in {m \in 1 .. (k - 1) :
     /\ isSet(f.actions[b][m]) /\ f.actions[b][m].index = i
     /\ unsetIn(f, b, i, m + 1, k - 1)}}

\* the sets of index i that arrive at the beginning of block b: those that are the last
\* of i in their block, flowing on from its end; and Null, flowing from the entry
setsAtStart(f, i, b) ==
  {w \in SetsIn(f, Blocks(f)) :
     /\ Act(f, w).index = i
     /\ unsetIn(f, w[1], i, w[2] + 1, Len(f.actions[w[1]]))
     /\ b \in flowUnset(f, i, f.out[w[1]])}
  \cup {n \in {Null} : b \in flowUnset(f, i, {Entry})}

\* the sets of index i that reach position k of block b
setsReaching(f, i, b, k) ==
  IF lastSetIn(f, b, i, k) /= {} THEN lastSetIn(f, b, i, k) ELSE setsAtStart(f, i, b)

\* LocalGraph::getSetses
LocalGraph(f) ==
  Tabulated([r \in GetsIn(f, Blocks(f)) |-> setsReaching(f, Act(f, r).index, r[1], r[2])])

-----------------------------------------------------------------------------
(* RedundantSetElimination.cpp: its Equivalences class. The values of sets  *)
(* are as before, with two literals: "const" is the zero of the local's     *)
(* type, "const7" another constant.                                         *)

\* the literal nodes made for the zero inits, one per type, after the nodes of the sets
TypeOrder == <<"i32", "i64">>
ZeroNodes == {<<0, t>> : t \in 1 .. Len(TypeOrder)}
ZeroNode(type) == <<0, CHOOSE t \in 1 .. Len(TypeOrder) : TypeOrder[t] = type>>
isLiteralNode(n) == n[1] = 0

\* the order of the vector nodes: the sets as FindAll lists them, then the zeros
nodeBefore(m, n) ==
  IF isLiteralNode(m) THEN isLiteralNode(n) /\ m[2] < n[2]
  ELSE isLiteralNode(n) \/ NodeLess(m, n)

\* getNode: the node of a set, of the zero of the type for the nullptr set
getNode(set, type) == IF set = Null THEN ZeroNode(type) ELSE set

\* Node::set, the key of setClasses: nullptr for every literal node
nodeSet(n) == IF isLiteralNode(n) THEN Null ELSE n

\* Node::literal, the key of literalClasses: the literal of a zero node or of a set of a
\* constant, the default literal "none" otherwise
nodeLiteral(f, n) ==
  IF isLiteralNode(n) THEN TypeOrder[n[2]]
  ELSE IF Act(f, n).val = "const" THEN getLocalType(f, Act(f, n).index)
  ELSE IF Act(f, n).val = "const7" THEN "seven"
  ELSE "none"
Literals == {"i32", "i64", "seven", "none"}

\* lines 164-171: the node a set of a constant connects to: the zero node of its type,
\* or the first set of that constant, which stands for the literal itself
literalNodeOf(f, sets, n) ==
  IF Act(f, n).val = "const" THEN {ZeroNode(getLocalType(f, Act(f, n).index))}
  ELSE {m \in sets : /\ Act(f, m).val = "const7" /\ NodeLess(m, n)
                     /\ \A x \in sets : Act(f, x).val = "const7" => ~NodeLess(x, m)}

\* lines 144-174: the direct connections a set adds, and the nodes it merges
rseDirectOf(f, graph, sets, n) ==
  IF isLiteralNode(n) THEN {}
  ELSE IF Act(f, n).val = "tee" THEN {valueNode(n)}
  ELSE IF Act(f, n).val = "get" /\ Cardinality(graph[valueNode(n)]) = 1
    THEN {getNode(s, getLocalType(f, Act(f, valueNode(n)).index)) : s \in graph[valueNode(n)]}
  ELSE IF Act(f, n).val \in {"const", "const7"} THEN literalNodeOf(f, sets, n)
  ELSE {}

rseMergesInOf(f, graph, n) ==
  IF ~isLiteralNode(n) /\ Act(f, n).val = "get" /\ Cardinality(graph[valueNode(n)]) > 1
  THEN {getNode(s, getLocalType(f, Act(f, valueNode(n)).index)) : s \in graph[valueNode(n)]}
  ELSE {}

\* lines 185-216, one floodfill: S are the nodes given the current class so far. A node
\* popped pushes its directs, and each node it merges into all of whose incoming
\* merges have the current class, whatever class those nodes had before. setClasses
\* has one entry for all literal nodes (their set is nullptr), so a literal node popped
\* when another has the current class is passed over
rseFloodStep(direct, mergesIn, S) ==
  S \cup {c \in UNION {direct[n] : n \in S}
                \cup {m \in DOMAIN mergesIn :
                        /\ mergesIn[m] \cap S /= {}
                        /\ \A x \in mergesIn[m] : nodeSet(x) \in {nodeSet(y) : y \in S}} :
            isLiteralNode(c) => \A y \in S : ~isLiteralNode(y)}

RECURSIVE rseFloodFill(_, _, _, _)
rseFloodFill(direct, mergesIn, S, next) ==
  IF next = S THEN S
  ELSE rseFloodFill(direct, mergesIn, next, rseFloodStep(direct, mergesIn, next))

\* known(start->set)
known(classes, n) == classes.setClasses[nodeSet(n)] /= 0

\* the next start of the loop of line 179: the first node, in the order of nodes, whose
\* set has no class
nextStart(classes, nodes) ==
  CHOOSE n \in nodes :
    /\ ~known(classes, n)
    /\ \A m \in nodes : ~known(classes, m) => m = n \/ nodeBefore(n, m)

\* lines 195-196 for the nodes S of one floodfill
classified(f, classes, S, currClass) ==
  [setClasses |->
     Tabulated([s \in DOMAIN classes.setClasses |->
        IF s \in {nodeSet(n) : n \in S} THEN currClass ELSE classes.setClasses[s]]),
   literalClasses |->
     Tabulated([l \in Literals |->
        IF l \in {nodeLiteral(f, n) : n \in S} THEN currClass
        ELSE classes.literalClasses[l]])]

\* lines 178-217
RECURSIVE rseFloodAll(_, _, _, _, _, _)
rseFloodAll(f, nodes, direct, mergesIn, classes, currClass) ==
  IF \A n \in nodes : known(classes, n) THEN classes
  ELSE rseFloodAll(f, nodes, direct, mergesIn,
         classified(f, classes,
                    rseFloodFill(direct, mergesIn, {}, {nextStart(classes, nodes)}),
                    currClass + 1),
         currClass + 1)

\* Equivalences::compute of RedundantSetElimination.cpp, on the sets FindAll lists and
\* the getSetses of the function as it came
rseEquivalences(f, graph, sets) ==
  rseFloodAll(f, sets \cup ZeroNodes,
    bothWays(Tabulated([n \in sets \cup ZeroNodes |-> rseDirectOf(f, graph, sets, n)])),
    Tabulated([n \in sets \cup ZeroNodes |-> rseMergesInOf(f, graph, n)]),
    [setClasses |-> [s \in sets \cup {Null} |-> 0], literalClasses |-> [l \in Literals |-> 0]],
    0)


-----------------------------------------------------------------------------
(* RedundantSetElimination::doWalkFunction. The IR is kept, for each set,   *)
(* as the kind of the node ("set"; "drop" once the set was turned into a    *)
(* drop of its value; "value" once the node was replaced by its value) and  *)
(* its value: an expression of the kinds of values (op), or a block with    *)
(* its list. A value "tee" is whatever the node below the set is by now.    *)

plainValue(v) == [op |-> v, list |-> <<>>]

\* lines 300-330, Instrumenter::visitSetLocal: the value becomes a block of a drop of
\* the value and a get of the index of the set (all sets here are reachable)
instrument(f) ==
  [n \in SetsIn(f, Blocks(f)) |->
     [kind |-> "set",
      value |-> [op |-> "block",
                 list |-> <<[op |-> "drop", value |-> Act(f, n).val],
                            [op |-> "get", value |-> "none"]>>]]]

\* getInstrumentedValue, isSetUnneeded
getInstrumentedValue(node) == node.value.list[1].value
isSetUnneeded(node) == Len(node.value.list) = 1

\* markSetAsUnneeded: the get is popped off the block
markSetAsUnneeded(node) == [node EXCEPT !.value.list = SubSeq(@, 1, Len(@) - 1)]

\* the LocalGraph of the instrumented function, for the gets the instrumentation added:
\* the get of set n is evaluated after the value of n and before n writes
instrumentedGets(f) ==
  Tabulated([n \in SetsIn(f, Blocks(f)) |-> setsReaching(f, Act(f, n).index, n[1], n[2])])

\* lines 285-290: the class of the one set that reaches; for the nullptr set, the class
\* of the zero of the type of the value
parentClass(f, classes, n, parent) ==
  IF parent = Null THEN classes.literalClasses[getLocalType(f, Act(f, n).index)]
  ELSE classes.setClasses[parent]

\* RedundantSetElimination::visitSetLocal: whether it marks set n
marksUnneeded_AnyParent(f, classes, graph, n) ==
  \E parent \in graph[n] : classes.setClasses[n] = parentClass(f, classes, n, parent)

marksUnneeded(f, classes, graph, n) ==
  /\ Cardinality(graph[n]) = 1
  /\ \A parent \in graph[n] : classes.setClasses[n] = parentClass(f, classes, n, parent)

\* the walk of line 268 over the instrumented function
rseWalk(f, classes, graph, instrumented) ==
  [n \in DOMAIN instrumented |->
     IF marksUnneeded(f, classes, graph, n) THEN markSetAsUnneeded(instrumented[n])
     ELSE instrumented[n]]

\* lines 332-353, UnInstrumenter::visitSetLocal
unInstrumentSet_KeepTeeBlock(action, node) ==
  IF ~isSetUnneeded(node) THEN [kind |-> "set", value |-> plainValue(getInstrumentedValue(node))]
  ELSE IF ~action.tee THEN [kind |-> "drop", value |-> plainValue(getInstrumentedValue(node))]
  ELSE [kind |-> "value", value |-> node.value]

unInstrumentSet(action, node) ==
  IF ~isSetUnneeded(node) THEN [kind |-> "set", value |-> plainValue(getInstrumentedValue(node))]
  ELSE IF ~action.tee THEN [kind |-> "drop", value |-> plainValue(getInstrumentedValue(node))]
  ELSE [kind |-> "value", value |-> plainValue(getInstrumentedValue(node))]

unInstrument(f, walkedIr) ==
  [n \in DOMAIN walkedIr |-> unInstrumentSet(Act(f, n), walkedIr[n])]

\* lines 257-274, in stages
rseWalked(f, classes, graph, walkedIr) ==
  [classes |-> classes, graph |-> graph,
   unneeded |-> {n \in DOMAIN walkedIr : isSetUnneeded(walkedIr[n])},
   ir |-> unInstrument(f, walkedIr)]

rseWithGraph(f, classes, graph) ==
  rseWalked(f, classes, graph, rseWalk(f, classes, graph, instrument(f)))

redundantSetElimination(f) ==
  rseWithGraph(f, rseEquivalences(f, LocalGraph(f), SetsIn(f, Blocks(f))),
               instrumentedGets(f))

\* the function the pass leaves, as the next pass reads it: the sets that were removed
\* are no actions of their blocks any more, and a set whose value was a removed tee has
\* the value of that tee
RECURSIVE valueLeft(_, _, _)
valueLeft(f, nodes, n) ==
  IF Act(f, n).val = "tee" /\ nodes[valueNode(n)].kind = "value"
  THEN valueLeft(f, nodes, valueNode(n))
  ELSE Act(f, n).val

RECURSIVE actionsLeft(_, _, _, _)
actionsLeft(f, nodes, b, k) ==
  IF k > Len(f.actions[b]) THEN <<>>
  ELSE (IF isSet(f.actions[b][k])
        THEN (IF nodes[<<b, k>>].kind = "set"
              THEN <<[f.actions[b][k] EXCEPT !.val = valueLeft(f, nodes, <<b, k>>)]>>
              ELSE <<>>)
        ELSE <<f.actions[b][k]>>) \o actionsLeft(f, nodes, b, k + 1)

rseOutput(f, nodes) ==
  [f EXCEPT !.actions = [b \in DOMAIN f.actions |-> actionsLeft(f, nodes, b, 1)]]

-----------------------------------------------------------------------------
(* SpecRse: RedundantSetElimination on small functions, and again on what   *)
(* it leaves.                                                               *)

\* statements: a set of zero, of another constant, of a set that is a copy of the local
\* to itself (x2 := (x1 := x1))
\* the last body hands a value round the three locals (x1 := x0, x2 := x1, x0 := x2)
Zero(i) == <<SetAction(i, "const", FALSE)>>
Seven(i) == <<SetAction(i, "const7", FALSE)>>
TeeCopy(i, j) == <<GetAction(j), SetAction(j, "get", TRUE), SetAction(i, "tee", FALSE)>>

RseBodies ==
  { <<>>,
    Zero(1),
    Seven(1),
    Def(1),
    Copy(1, 0),
    Copy(0, 0),
    Copy(2, 1),
    TeeCopy(2, 1),
    Copy(1, 0) \o Copy(2, 1) \o Copy(0, 2) }

RseActions(o) ==
  {a \in [1 .. Len(o) -> RseBodies] : Len(o) = 4 => a[Entry] = <<>>}

RseFuncs ==
  UNION {{[numLocals |-> MaxLocals, numParams |-> p,
           types |-> [i \in 0 .. (MaxLocals - 1) |-> "i32"],
           actions |-> a, out |-> o] :
            p \in 0 .. 1, a \in RseActions(o)} : o \in CoalShapes}

InitRse ==
  /\ func \in RseFuncs
  /\ pc = "ready"
  /\ indexInterferences = <<>>
  /\ copies = <<>>
  /\ handed = <<>>
  /\ indices = NoIndices
  /\ removedCopies = 0
  /\ population = {}
  /\ first = TRUE
  /\ startIndexes = <<>>
  /\ endIndexes = <<>>
  /\ queue = {}
  /\ startSets = <<>>
  /\ endSets = <<>>
  /\ getSetses = <<>>
  /\ equivalenceClasses = <<>>
  /\ ir = <<>>
  /\ unneeded = {}
  /\ changesDone = {}
  /\ module = <<>>
  /\ counts = <<>>
  /\ scanned = <<>>

\* the state the pass leaves
RseDone(r) ==
  /\ getSetses' = r.graph
  /\ equivalenceClasses' = r.classes
  /\ unneeded' = r.unneeded
  /\ ir' = r.ir

\* RedundantSetElimination::doWalkFunction
RseWalkFunction ==
  /\ pc = "ready"
  /\ RseDone(redundantSetElimination(func))
  /\ pc' = "done"
  /\ UNCHANGED <<func, pickVars, liveVars, startSets, endSets, changesDone, scanVars>>

\* the pass again, on the function it left
RseWalkAgain ==
  /\ pc = "done"
  /\ func' = rseOutput(func, ir)
  /\ RseDone(redundantSetElimination(rseOutput(func, ir)))
  /\ pc' = "again"
  /\ UNCHANGED <<pickVars, liveVars, startSets, endSets, changesDone, scanVars>>

NextRse == RseWalkFunction \/ RseWalkAgain

SpecRse == InitRse /\ [][NextRse]_vars


-----------------------------------------------------------------------------
(* Claims about RedundantSetElimination.                                    *)

\* C13: running RedundantSetElimination on what it left removes no further write.
C13_RseIdempotent == pc = "again" => unneeded = {}


\* most blocks an execution is followed through
MaxRun == 5

\* values: the zero, the other constant, the argument of parameter i, the result of
\* the call made at step t of the execution
ZeroValue == <<0>>
SevenValue == <<7>>
ArgValue(i) == <<1, i>>
CallValue(t) == <<2, t>>

\* the locals when the function is entered
EnteredWith(f) == [i \in Locals(f) |-> IF i \in Params(f) THEN ArgValue(i) ELSE ZeroValue]

\* the value a set stores: prev is the value of the node evaluated last
StoredValue(action, prev, t) ==
  IF action.val \in {"get", "tee"} THEN prev
  ELSE IF action.val = "const" THEN ZeroValue
  ELSE IF action.val = "const7" THEN SevenValue
  ELSE CallValue(t)

\* on every execution of f that goes on from position k of block b with the locals env,
\* through at most fuel more blocks, each write in U stores the value its local holds
RECURSIVE WritesRedundant(_, _, _, _, _, _, _, _)
WritesRedundant(f, U, b, k, env, prev, t, fuel) ==
  IF k > Len(f.actions[b])
  THEN fuel = 0 \/ \A s \in Out(f, b) : WritesRedundant(f, U, s, 1, env, prev, t, fuel - 1)
  ELSE IF isGet(f.actions[b][k])
  THEN WritesRedundant(f, U, b, k + 1, env, env[f.actions[b][k].index], t, fuel)
  ELSE \A v \in {StoredValue(f.actions[b][k], prev, t)} :
         /\ <<b, k>> \in U => env[f.actions[b][k].index] = v
         /\ WritesRedundant(f, U, b, k + 1,
                            [env EXCEPT ![f.actions[b][k].index] = v], v, t + 1, fuel)

\* C11: whenever RedundantSetElimination removes a write to a local, on every execution
\* the local already holds, just before that write, the value the write would have
\* stored; also when the value is a read of a parameter that only the incoming argument
\* reaches, written to a declared variable that still holds its zero.
C11_RemovedWritesAreRedundant ==
  pc \in {"done", "again"} => WritesRedundant(func, unneeded, Entry, 1, EnteredWith(func), ZeroValue, 0, MaxRun)


\* the class the pass compared the class of set n with, for the source s
ComparedClass(n, s) ==
  IF s = Null THEN equivalenceClasses.literalClasses[getLocalType(func, Act(func, n).index)]
  ELSE equivalenceClasses.setClasses[s]

\* C12: RedundantSetElimination marks a write unneeded only when exactly one source
\* reaches its instrumented read and the class of the write equals the class of that
\* source (of the zero literal of the type when the source is the implicit initial
\* value); the two classes compared are never both the null class 0.
C12_UnneededOnlyIfSameClass ==
  pc \in {"done", "again"} =>
    /\ \A n \in unneeded :
         /\ Cardinality(setsReaching(func, Act(func, n).index, n[1], n[2])) = 1
         /\ \A s \in setsReaching(func, Act(func, n).index, n[1], n[2]) :
              equivalenceClasses.setClasses[n] = ComparedClass(n, s)
    /\ \A n \in SetsIn(func, liveBlocks(func)) : equivalenceClasses.setClasses[n] /= 0

\* C12 happens: a write was marked whose one source is another write, another whose
\* one source is the implicit initial value, and a write of the class of one of its
\* two sources was not marked
C12_Witness ==
  /\ pc = "done"
  /\ \E n \in unneeded : Null \in getSetses[n]
  /\ \E n \in unneeded : Null \notin getSetses[n]
  /\ \E n \in SetsIn(func, liveBlocks(func)) \ unneeded :
       /\ Cardinality(getSetses[n]) = 2
       /\ \E s \in getSetses[n] : equivalenceClasses.setClasses[n] = ComparedClass(n, s)

\* C14: after RedundantSetElimination no instrumentation remains: a write not marked
\* unneeded is a write of its original value, a write marked unneeded is a drop of its
\* original value (a void write) or the value itself (a tee), and neither a block nor
\* a read that was inserted survives, nested tees included.
C14_NoInstrumentationLeft ==
  pc \in {"done", "again"} =>
    \A n \in SetsIn(func, liveBlocks(func)) :
      /\ ir[n].value = plainValue(Act(func, n).val)
      /\ ir[n].kind = IF n \notin unneeded THEN "set"
                      ELSE IF Act(func, n).tee THEN "value" ELSE "drop"

\* C14 happens: a tee that is the value of another write was marked unneeded, and a
\* void write was
C14_Witness ==
  /\ pc = "done"
  /\ \E n \in unneeded :
       /\ Act(func, n).tee
       /\ <<n[1], n[2] + 1>> \in SetsIn(func, liveBlocks(func))
       /\ Act(func, <<n[1], n[2] + 1>>).val = "tee"
  /\ \E n \in unneeded : ~Act(func, n).tee


-----------------------------------------------------------------------------
(* LocalGraph::computeSSAIndexes (ir/local-graph.h): an index is SSA when   *)
(* one and the same set reaches all its gets and it has no other set.       *)

\* the sets that reach the gets of index i
indexSets(f, graph, i) ==
  UNION {graph[r] : r \in {g \in DOMAIN graph : Act(f, g).index = i}}

SSAIndexes(f, graph) ==
  {i \in Locals(f) :
     /\ Cardinality(indexSets(f, graph, i)) = 1
     /\ \A w \in SetsIn(f, Blocks(f)) : Act(f, w).index = i => w \in indexSets(f, graph, i)}

-----------------------------------------------------------------------------
(* CopyPropagation::doWalkFunction. The function is rewritten in place:     *)
(* func is the function as it came, ir the function as it is now.           *)

\* lines 64-73: the one set that reaches a get, if it is not the nullptr set (there are
\* no unreachable sets here)
getRelevantSet(graph, get) ==
  IF Cardinality(graph[get]) = 1 THEN graph[get] \ {Null} ELSE {}

\* lines 75-81: the value of a set if it is a get or a set (nothing to fall through)
getRelevantSetValue(f, set) ==
  IF Act(f, set).val \in {"get", "tee"} THEN {valueNode(set)} ELSE {}

\* lines 90-99 and 100-109: what the walk pushes after it popped value
pushedAfter(f, graph, ssa, value) ==
  IF Act(f, value).index \notin ssa THEN {}
  ELSE IF isSet(Act(f, value)) THEN getRelevantSetValue(f, value)
  ELSE getRelevantSet(graph, value)

\* lines 91-95 and 101-105: bestIndex after value was popped
bestAfter_AnyIndex(f, ssa, index, value, bestIndex) ==
  IF Act(f, value).index /= index THEN Act(f, value).index ELSE bestIndex

bestAfter(f, ssa, index, value, bestIndex) ==
  IF Act(f, value).index \in ssa /\ Act(f, value).index /= index
  THEN Act(f, value).index ELSE bestIndex

\* OneTimeWorkList::push
push_Again(work, addedToWork, items) == work \cup items

push(work, addedToWork, items) == work \cup (items \ addedToWork)

\* lines 85-113: the walk back from a value, with a OneTimeWorkList: work holds at most
\* one item, as each item popped pushes at most one. handled lists the items popped;
\* no walk handles more items than the function has gets and sets
RECURSIVE walkBack(_, _, _, _, _, _, _, _)
RECURSIVE walkOn(_, _, _, _, _, _, _, _, _)
walkBack(f, graph, ssa, index, work, addedToWork, bestIndex, handled) ==
  IF work = {} \/ Len(handled) > Cardinality(NodesIn(f, Blocks(f)))
  THEN [bestIndex |-> bestIndex, handled |-> handled]
  ELSE walkOn(f, graph, ssa, index, work, addedToWork, bestIndex, handled,
              CHOOSE value \in work : TRUE)

\* lines 89-112: value was popped
walkOn(f, graph, ssa, index, work, addedToWork, bestIndex, handled, value) ==
  Only({walkBack(f, graph, ssa, index, next[1], next[2], next[3], next[4]) :
          next \in {<<push(work \ {value}, addedToWork, pushedAfter(f, graph, ssa, value)),
                      addedToWork \cup pushedAfter(f, graph, ssa, value),
                      bestAfter(f, ssa, index, value, bestIndex),
                      Append(handled, value)>>}})

\* lines 82-113: the walk for a get; it handles nothing when nothing is relevant
walkFor(f, graph, ssa, get) ==
  IF Act(f, get).index \notin ssa THEN [bestIndex |-> Act(f, get).index, handled |-> <<>>]
  ELSE walkBack(f, graph, ssa, Act(f, get).index,
         UNION {getRelevantSetValue(f, set) : set \in getRelevantSet(graph, get)},
         UNION {getRelevantSetValue(f, set) : set \in getRelevantSet(graph, get)},
         Act(f, get).index, <<>>)

bestIndexFor(f, graph, ssa, get) == walkFor(f, graph, ssa, get).bestIndex

\* lines 115-123: the state of an iteration is the function, the changes done and worked
changeGet_ByIndex(st, get, bestIndex) ==
  IF bestIndex /= Act(st.f, get).index /\ bestIndex \notin {c[2] : c \in st.changesDone}
  THEN [f |-> [st.f EXCEPT !.actions[get[1]][get[2]].index = bestIndex],
        changesDone |-> st.changesDone \cup {<<get, bestIndex>>},
        worked |-> TRUE]
  ELSE st

changeGet(st, get, bestIndex) ==
  IF bestIndex /= Act(st.f, get).index /\ <<get, bestIndex>> \notin st.changesDone
  THEN [f |-> [st.f EXCEPT !.actions[get[1]][get[2]].index = bestIndex],
        changesDone |-> st.changesDone \cup {<<get, bestIndex>>},
        worked |-> TRUE]
  ELSE st

\* lines 58-128: the loop over localGraph.locations, in the order the map gives them;
\* the graph and the SSA indexes are those of the function the iteration began with,
\* the indexes of the gets and sets are read as they are by now
RECURSIVE visitLocations(_, _, _, _, _)
visitLocations(graph, ssa, order, k, st) ==
  IF k > Len(order) THEN st
  ELSE Only({visitLocations(graph, ssa, order, k + 1, next) :
               next \in {changeGet(st, order[k], bestIndex) :
                           bestIndex \in {bestIndexFor(st.f, graph, ssa, order[k])}}})

\* lines 54-128: one iteration of the loop of doWalkFunction
iterationWith(f, graph, done, order) ==
  visitLocations(graph, SSAIndexes(f, graph), order, 1,
                 [f |-> f, changesDone |-> done, worked |-> FALSE])

iteration(f, done, order) == iterationWith(f, LocalGraph(f), done, order)

\* the orders in which an iteration can come upon the gets
RECURSIVE SeqsOf(_)
SeqsOf(S) ==
  IF S = {} THEN {<<>>}
  ELSE UNION {{<<x>> \o s : s \in SeqsOf(S \ {x})} : x \in S}

\* the gets lines 61-83 find a relevant set and value for: the loop passes the others
\* by, so their place in the order changes nothing
relevantGets(f, graph) ==
  {get \in GetsIn(f, Blocks(f)) :
     /\ Act(f, get).index \in SSAIndexes(f, graph)
     /\ \E set \in getRelevantSet(graph, get) : getRelevantSetValue(f, set) /= {}}

LocationOrders(f, graph) == SeqsOf(relevantGets(f, graph))


-----------------------------------------------------------------------------
(* SpecCp: CopyPropagation on small functions, an iteration of its loop per *)
(* step, and again on what it leaves.                                       *)

\* a copy through a tee: xi := (xj := xk)
CopyTee(i, j, k) == <<GetAction(k), SetAction(j, "get", TRUE), SetAction(i, "tee", FALSE)>>

CpBodies ==
  { <<>>,
    Use(2),
    Copy(1, 2) \o Copy(2, 1),
    Def(1),
    Copy(1, 0),
    Copy(2, 1) \o Use(2),
    Copy(0, 1) \o Use(0),
    CopyTee(2, 1, 0) \o Use(2) \o Use(1) }

\* the CFGs: those above, and a loop that cannot be reached
CpShapes == CoalShapes \cup {<<{}, {2}>>}

CpActions(o) ==
  {a \in [1 .. Len(o) -> CpBodies] : Len(o) = 4 => a[Entry] = <<>>}

CpFuncs ==
  UNION {{[numLocals |-> MaxLocals, numParams |-> p,
           types |-> [i \in 0 .. (MaxLocals - 1) |-> "i32"],
           actions |-> a, out |-> o] :
            p \in 0 .. 1, a \in CpActions(o)} : o \in CpShapes}

InitCp ==
  /\ func \in CpFuncs
  /\ ir = func
  /\ pc = "ready"
  /\ indexInterferences = <<>>
  /\ copies = <<>>
  /\ handed = <<>>
  /\ indices = NoIndices
  /\ removedCopies = 0
  /\ population = {}
  /\ first = TRUE
  /\ startIndexes = <<>>
  /\ endIndexes = <<>>
  /\ queue = {}
  /\ startSets = <<>>
  /\ endSets = <<>>
  /\ getSetses = <<>>
  /\ equivalenceClasses = <<>>
  /\ unneeded = {}
  /\ changesDone = {}
  /\ module = <<>>
  /\ counts = <<>>
  /\ scanned = <<>>

\* the state an iteration leaves: the loop goes on if it worked
CpIterated(graph, it, working, done) ==
  /\ ir' = it.f
  /\ changesDone' = it.changesDone
  /\ getSetses' = graph
  /\ pc' = IF it.worked THEN working ELSE done

CpIterateWith(graph, working, done) ==
  \E order \in LocationOrders(ir, graph) :
    \E it \in {iterationWith(ir, graph, changesDone, order)} :
      CpIterated(graph, it, working, done)

\* one iteration of the loop of CopyPropagation::doWalkFunction
CpIterate ==
  /\ \E graph \in {LocalGraph(ir)} :
       \/ pc \in {"ready", "working"} /\ CpIterateWith(graph, "working", "done")
       \/ pc \in {"again", "working again"}
            /\ CpIterateWith(graph, "working again", "done again")
  /\ UNCHANGED <<func, pickVars, liveVars, startSets, endSets, equivalenceClasses, unneeded, scanVars>>

\* the pass is run again, on the function it left: a new doWalkFunction on ir
CpRunAgain ==
  /\ pc = "done"
  /\ changesDone' = {}
  /\ pc' = "again"
  /\ UNCHANGED <<func, ir, pickVars, liveVars, startSets, endSets, getSetses, equivalenceClasses, unneeded, scanVars>>

NextCp == CpIterate \/ CpRunAgain

SpecCp == InitCp /\ [][NextCp]_vars


-----------------------------------------------------------------------------
(* Claims about CopyPropagation.                                            *)

MinOfSet(S) == CHOOSE x \in S : \A y \in S : x <= y

\* the single-assignment indices along the copy chain of a get of f, its own included
ChainIndices(f, graph, get) ==
  {Act(f, get).index} \cup
  {Act(f, value).index :
     value \in {v \in NodesIn(f, Blocks(f)) :
       /\ \E k \in 1 .. Len(walkFor(f, graph, SSAIndexes(f, graph), get).handled) :
            walkFor(f, graph, SSAIndexes(f, graph), get).handled[k] = v
       /\ Act(f, v).index \in SSAIndexes(f, graph)}}

IndexNow(get) == Act(ir, get).index

\* C15: for a read of a single-assignment local whose sole reaching write is a copy,
\* CopyPropagation rewrites the read to the numerically smallest of the
\* single-assignment indices collected along the copy chain, and leaves the read as
\* it is when that smallest index is its own.
C15_RewritesToSmallestIndex ==
  pc = "done" =>
    \A get \in relevantGets(func, LocalGraph(func)) :
      IndexNow(get) = MinOfSet(ChainIndices(func, LocalGraph(func), get))

\* on every execution of f through at most fuel more blocks, each read of g, which is
\* f but for the indexes of its reads, reads the value the read of f does
RECURSIVE ReadsAgree(_, _, _, _, _, _, _, _)
ReadsAgree(f, g, b, k, env, prev, t, fuel) ==
  IF k > Len(f.actions[b])
  THEN fuel = 0 \/ \A s \in Out(f, b) : ReadsAgree(f, g, s, 1, env, prev, t, fuel - 1)
  ELSE IF isGet(f.actions[b][k])
  THEN /\ env[g.actions[b][k].index] = env[f.actions[b][k].index]
       /\ ReadsAgree(f, g, b, k + 1, env, env[f.actions[b][k].index], t, fuel)
  ELSE \A v \in {StoredValue(f.actions[b][k], prev, t)} :
         ReadsAgree(f, g, b, k + 1, [env EXCEPT ![f.actions[b][k].index] = v], v, t + 1, fuel)

\* C16: CopyPropagation rewrites a read only when the local of the read is
\* single-assigned and exactly one write, not the implicit value, reaches it, and only
\* to a local that is single-assigned too and that a chain of copies (reads or tees)
\* links to that write; so the new local holds the same value at the read.
C16_RewritesKeepValue ==
  pc = "done" =>
    /\ \A get \in GetsIn(func, Blocks(func)) :
         IndexNow(get) /= Act(func, get).index =>
           /\ get \in relevantGets(func, LocalGraph(func))
           /\ IndexNow(get) \in SSAIndexes(func, LocalGraph(func))
           /\ IndexNow(get) \in ChainIndices(func, LocalGraph(func), get)
    /\ ReadsAgree(func, ir, Entry, 1, EnteredWith(func), ZeroValue, 0, MaxRun)

\* C16 happens: a read that can be reached was rewritten to the end of a chain of two
\* copies, the first of them a tee
C16_Witness ==
  /\ pc = "done"
  /\ \E get \in GetsIn(func, liveBlocks(func)) :
       /\ IndexNow(get) /= Act(func, get).index
       /\ Len(walkFor(func, LocalGraph(func), SSAIndexes(func, LocalGraph(func)), get).handled) >= 2
       /\ Act(func, walkFor(func, LocalGraph(func),
                            SSAIndexes(func, LocalGraph(func)), get).handled[1]).tee

\* C18: running CopyPropagation on what it left changes the index of no read: no
\* iteration of the second run changes the function.
C18_CpIdempotent == [][(pc \in {"again", "working again"}) => (ir' = ir)]_vars

\* C18 happens: the first run rewrote a read, the second run came to its end
C18_Witness == pc = "done again" /\ ir /= func


\* the loop of doWalkFunction goes on as long as it can
SpecCpFair == SpecCp /\ WF_vars(CpIterate)

\* the items the walk for a get handled
handledFor(f, get) == walkFor(f, LocalGraph(f), SSAIndexes(f, LocalGraph(f)), get).handled

NoRepeats(s) == \A j, k \in 1 .. Len(s) : s[j] = s[k] => j = k

\* C17: CopyPropagation terminates for every function, also when the copies form a
\* cycle: the loop reaches its end, every iteration after which the loop goes on
\* recorded a (read, index) pair that was not recorded before, and the walk along a
\* chain handles no expression twice.
C17_CpTerminates ==
  /\ <>(pc = "done")
  /\ [][(pc' \in {"working", "working again"}) =>
          (changesDone \subseteq changesDone' /\ changesDone' /= changesDone)]_vars
  /\ [](\A get \in relevantGets(ir, LocalGraph(ir)) : NoRepeats(handledFor(ir, get)))

\* C17 happens: the pass ended on a function with a cycle of copies, where the walk
\* for a read came back to an item it had handled and left it
C17_Witness ==
  /\ pc = "done"
  /\ \E get \in relevantGets(func, LocalGraph(func)) :
       \E j, k \in 1 .. Len(handledFor(func, get)) :
         /\ j < k
         /\ handledFor(func, get)[j] \in
              pushedAfter(func, LocalGraph(func), SSAIndexes(func, LocalGraph(func)),
                          handledFor(func, get)[k])


-----------------------------------------------------------------------------
(* The function CoalesceLocals::doWalkFunction leaves, and SpecAgain: the   *)
(* pass on small functions and once more on what it left.                   *)

\* the node whose value node n is: the next action, a set of a get or of a tee
hasParent(f, n) ==
  /\ n[2] < Len(f.actions[n[1]])
  /\ isSet(f.actions[n[1]][n[2] + 1])
  /\ f.actions[n[1]][n[2] + 1].val \in {"get", "tee"}

\* removeSet turned n or a set that n is in the value of into a nop
\* (liveness-traversal.h line 81: the value goes with the set)
RECURSIVE underNop(_, _, _)
underNop(f, applied, n) ==
  \/ applied[n].state = "nop"
  \/ hasParent(f, n) /\ underNop(f, applied, <<n[1], n[2] + 1>>)

\* the explicit sets are gone with the body ~InstrumentExplicitSets puts back
isExplicitSet(f, n) == n[1] = Entry /\ n[2] <= f.numLocals

\* the gets and sets the body still holds: f is the instrumented function
leftInBody(f, applied, n) ==
  /\ ~isExplicitSet(f, n)
  /\ ~underNop(f, applied, n)
  /\ applied[n].state /= "value"

\* the value of set n now: that of a tee removeSet replaced by its value (line 79)
RECURSIVE valueKindLeft(_, _, _)
valueKindLeft(f, applied, n) ==
  IF Act(f, n).val = "tee" /\ applied[valueNode(n)].state = "value"
  THEN valueKindLeft(f, applied, valueNode(n))
  ELSE Act(f, n).val

actionLeft(f, applied, n) ==
  IF isGet(Act(f, n)) THEN GetAction(applied[n].index)
  ELSE SetAction(applied[n].index, valueKindLeft(f, applied, n), Act(f, n).tee)

RECURSIVE bodyLeftFrom(_, _, _, _)
bodyLeftFrom(f, applied, b, k) ==
  IF k > Len(f.actions[b]) THEN <<>>
  ELSE (IF leftInBody(f, applied, <<b, k>>) THEN <<actionLeft(f, applied, <<b, k>>)>> ELSE <<>>)
         \o bodyLeftFrom(f, applied, b, k + 1)

\* the function after applyIndices (lines 660-703) and ~InstrumentExplicitSets: f is the
\* function as it came
coalesceOutput(f, applied, ind) ==
  [ numLocals |-> MaxOf(ind) + 1,
    numParams |-> f.numParams,
    types |-> [s \in 0 .. MaxOf(ind) |->
                 IF s < f.numParams THEN f.types[s] ELSE applyIndicesVars(f, ind)[s]],
    actions |-> [b \in Blocks(f) |-> bodyLeftFrom(Instrument(f), applied, b, 1)],
    out |-> f.out ]

\* what a block can hold: uses, sets from a call and from the literal 7 (the second
\* of them with both locals read after it), copies
AgainBodies ==
  { <<>>,
    Use(1),
    Use(2),
    Def(1),
    Seven(1),
    Seven(2) \o Use(1) \o Use(2),
    Copy(2, 1),
    Copy(1, 0) }

AgainActions(o) ==
  {a \in [1 .. Len(o) -> AgainBodies] : Len(o) = 4 => a[Entry] = <<>>}

AgainFuncs ==
  UNION {{[numLocals |-> MaxLocals, numParams |-> p,
           types |-> [i \in 0 .. (MaxLocals - 1) |-> "i32"],
           actions |-> a, out |-> o] :
            p \in 0 .. 1, a \in AgainActions(o)} : o \in CoalShapes}

InitAgain ==
  /\ func \in AgainFuncs
  /\ pc = "ready"
  /\ indexInterferences = <<>>
  /\ copies = <<>>
  /\ handed = <<>>
  /\ indices = NoIndices
  /\ removedCopies = 0
  /\ population = {}
  /\ first = TRUE
  /\ startIndexes = <<>>
  /\ endIndexes = <<>>
  /\ queue = {}
  /\ startSets = <<>>
  /\ endSets = <<>>
  /\ getSetses = <<>>
  /\ equivalenceClasses = <<>>
  /\ ir = <<>>
  /\ unneeded = {}
  /\ changesDone = {}
  /\ module = <<>>
  /\ counts = <<>>
  /\ scanned = <<>>

\* the state the second doWalkFunction leaves
WalkedAgain(r) ==
  \E aborts \in (IF asserted(r) THEN {FALSE} ELSE {FALSE, TRUE}) :
    /\ startIndexes' = r.a.li.start
    /\ endIndexes' = r.a.li.end
    /\ queue' = r.a.li.queue
    /\ startSets' = r.a.ls.startSets
    /\ endSets' = r.a.ls.endSets
    /\ copies' = r.a.cp
    /\ getSetses' = r.a.gs
    /\ equivalenceClasses' = r.eq.classes
    /\ indexInterferences' = r.inter.indexInterferences
    /\ handed' = r.picked.handed
    /\ indices' = r.picked.indices
    /\ removedCopies' = r.picked.removedCopies
    /\ ir' = IF aborts THEN <<>> ELSE r.applied.ir
    /\ pc' = IF aborts THEN "aborted again" ELSE "done again"

WalkedAgainInSomeOrder(a) == \E rank \in IterationOrders(a) : WalkedAgain(coalesce(a, rank))

\* CoalesceLocals::doWalkFunction on the function the first run left
DoWalkAgain ==
  /\ pc = "done"
  /\ \E left \in {coalesceOutput(func, ir, indices)} :
       /\ func' = left
       /\ WalkedAgainInSomeOrder(analyse(Instrument(left)))
  /\ UNCHANGED <<population, first, passVars>>

NextAgain == DoWalkFunction \/ DoWalkAgain

SpecAgain == InitAgain /\ [][NextAgain]_vars


-----------------------------------------------------------------------------
(* Claims about running CoalesceLocals again, and about its equivalences.   *)

\* the second run gave every local the index it had
NoLocalRenumbered == \A i \in Locals(func) : indices[i] = i

\* the second run handed no set of the body to removeSet
NoWriteRemoved ==
  \A n \in SetsIn(Instrument(func), Blocks(func)) :
    ~isExplicitSet(Instrument(func), n) => ir[n].state = "set"

SameNumberOfLocals == MaxOf(indices) + 1 = func.numLocals

\* C19: running CoalesceLocals on the function it left changes nothing: no local is
\* renumbered, no write is removed and the number of locals stays the same.
C19_CoalesceIdempotent ==
  pc = "done again" =>
    /\ NoLocalRenumbered
    /\ NoWriteRemoved
    /\ SameNumberOfLocals
    /\ coalesceOutput(func, ir, indices) = func


\* the writes of the body whose value is the literal of kind v
LiteralWrites(f, v) ==
  {n \in SetsIn(Instrument(f), liveBlocks(f)) :
     ~isExplicitSet(Instrument(f), n) /\ Act(Instrument(f), n).val = v}

\* C20: in the equivalence classes the coalescer uses against spurious interferences,
\* two writes whose values are the same constant literal are in the same class, so
\* they add no interference between their indices.
C20_SameLiteralSameClass ==
  pc = "done" =>
    \A v \in {"const", "const7"} :
      \A m \in LiteralWrites(func, v), n \in LiteralWrites(func, v) :
        /\ equivalenceClasses[m] = equivalenceClasses[n]
        /\ ~maybeInterfere(Instrument(func), equivalenceClasses, m, n)


-----------------------------------------------------------------------------
(* Claims about the analyses of the coalescer on the instrumented function. *)

\* C21: with the explicit sets of InstrumentExplicitSets before the body, GetSets has
\* for every get in a live block at least one set that reaches it.
C21_EveryGetHasASet ==
  pc \in {"done", "aborted"} =>
    /\ DOMAIN getSetses = GetsIn(Instrument(func), liveBlocks(func))
    /\ \A get \in DOMAIN getSetses : getSetses[get] /= {}

\* C21 happens: a get in a block after the entry that only the explicit set of its
\* local reaches, and a get in a loop that two sets reach
C21_Witness ==
  /\ pc = "done"
  /\ \E get \in DOMAIN getSetses :
       get[1] /= Entry /\ \A set \in getSetses[get] : isExplicitSet(Instrument(func), set)
  /\ \E get \in DOMAIN getSetses : Cardinality(getSetses[get]) > 1


-----------------------------------------------------------------------------
(* ReorderFunctions: the counting of the calls (ReorderFunctions.cpp lines  *)
(* 43-103). CallCountScanner is function-parallel: the functions are       *)
(* scanned at the same time, each by one scanner, which visits the calls of *)
(* its function in order. A module names its functions 1 .. n and holds for *)
(* each the targets of its calls.                                           *)

MaxFunctions == 3
MaxCalls == 1

Names(m) == DOMAIN m

\* lines 91-93: an entry for every function, before the scanners run
fillIn_First(m) == [name \in Names(m) \cap {1} |-> 0]

fillIn(m) == [name \in Names(m) |-> 0]

\* line 55: (*counts)[curr->target]++. operator[] makes an entry with a zero when the
\* map has none for the key; the increment of the std::atomic is one step
visitCall(c, target) ==
  IF target \in DOMAIN c THEN [c EXCEPT ![target] = @ + 1]
  ELSE [name \in DOMAIN c \cup {target} |-> IF name = target THEN 1 ELSE c[name]]

\* the sequences over S of length up to n
RECURSIVE CallsUpTo(_, _)
CallsUpTo(S, n) ==
  IF n = 0 THEN {<<>>}
  ELSE CallsUpTo(S, n - 1) \cup
       {Append(q, x) : q \in {r \in CallsUpTo(S, n - 1) : Len(r) = n - 1}, x \in S}

\* the modules: every call targets a function of the module
Modules == [1 .. MaxFunctions -> CallsUpTo(1 .. MaxFunctions, MaxCalls)]

InitScan ==
  /\ module \in Modules
  /\ counts = fillIn(module)
  /\ scanned = [name \in Names(module) |-> 0]
  /\ pc = "scanning"
  /\ func = MakeFunc(0, 0, <<>>)
  /\ indexInterferences = <<>>
  /\ copies = <<>>
  /\ handed = <<>>
  /\ indices = NoIndices
  /\ removedCopies = 0
  /\ population = {}
  /\ first = TRUE
  /\ startIndexes = <<>>
  /\ endIndexes = <<>>
  /\ queue = {}
  /\ startSets = <<>>
  /\ endSets = <<>>
  /\ getSetses = <<>>
  /\ equivalenceClasses = <<>>
  /\ ir = <<>>
  /\ unneeded = {}
  /\ changesDone = {}

\* CallCountScanner::visitCall, by the scanner of function name
VisitCall(name) ==
  /\ pc = "scanning"
  /\ scanned[name] < Len(module[name])
  /\ counts' = visitCall(counts, module[name][scanned[name] + 1])
  /\ scanned' = [scanned EXCEPT ![name] = @ + 1]
  /\ UNCHANGED <<func, pc, module, pickVars, liveVars, coalVars, unneeded, changesDone>>

\* lines 95-100: runner.run() returns when every function was scanned
ScansDone ==
  /\ pc = "scanning"
  /\ \A name \in Names(module) : scanned[name] = Len(module[name])
  /\ pc' = "scanned"
  /\ UNCHANGED <<func, pickVars, liveVars, coalVars, passVars>>

NextScan == (\E name \in Names(module) : VisitCall(name)) \/ ScansDone

SpecScan == InitScan /\ [][NextScan]_vars

\* the call sites of module that target name
CallSites(name) ==
  {site \in UNION {{<<caller, k>> : k \in 1 .. Len(module[caller])} : caller \in Names(module)} :
     module[site[1]][site[2]] = name}

\* C22: while the functions are scanned in parallel no CallCountScanner adds a key to
\* the shared map of counts, every target having its entry from the start, and under
\* every interleaving the count of each function is, when all scans are done, the
\* number of call sites that target it.
C22_CountsAreCallSites ==
  /\ DOMAIN counts = Names(module)
  /\ pc = "scanned" => \A name \in Names(module) : counts[name] = Cardinality(CallSites(name))

\* C22 happens: the scans are done and two functions called the same third
C22_Witness ==
  /\ pc = "scanned"
  /\ \E name \in Names(module) :
       \E a, b \in Names(module) \ {name} :
         a /= b /\ <<a, 1>> \in CallSites(name) /\ <<b, 1>> \in CallSites(name)


\* the blocks a path of one edge or more leads to from block b
BlocksAfter(f, b) == ReachableFrom(f, Out(f, b))

\* set w is the last set of its index among the actions of block b
LastOwnSet(f, w, b) ==
  /\ w[1] = b
  /\ \A k \in (w[2] + 1) .. Len(f.actions[b]) :
       ~(isSet(f.actions[b][k]) /\ f.actions[b][k].index = Act(f, w).index)

\* set w reaches the end of block b
ReachesEnd(f, w, b) ==
  \/ LastOwnSet(f, w, b)
  \/ /\ Act(f, w).index \notin blockIndexesSet(f, b)
     /\ \E p \in In(f, b) : w \in endSets[p]

\* C23: after flowSetLiveness a set w is in endSets of a live block B exactly when its
\* index is in endIndexes of B and w reaches the end of B: it is the last set of its
\* index in B, or B has no set of that index and w is live at the end of a predecessor
\* of B. A set of another block from which no path leads to B is never in endSets of B.
C23_EndSetsExact ==
  pc \in {"done", "aborted"} =>
    \A b \in liveBlocks(func) :
      \A w \in SetsIn(Instrument(func), liveBlocks(func)) :
        /\ w \in endSets[b] <=>
             (Act(Instrument(func), w).index \in endIndexes[b] /\ ReachesEnd(Instrument(func), w, b))
        /\ (w[1] /= b /\ b \notin BlocksAfter(func, w[1])) => w \notin endSets[b]


\* the scans of Interferences::compute on what the analyses left
scansNow ==
  scanBlocks(Instrument(func), linked(Instrument(func)), endSets, getSetses)

\* C24: in the scan of a live block from its end, right after the set of a set action
\* was taken out of the live sets, no set left in them has the index of that set: the
\* assertion of lines 409-413 does not fail.
C24_NoOtherLiveSetOfIndex ==
  pc \in {"done", "aborted"} => \A b \in liveBlocks(func) : scansNow[b].ok

\* C24 happens: a block scanned holds two sets of one index, the later one live at its
\* end beside a set of another index
C24_Witness ==
  /\ pc = "done"
  /\ \E b \in liveBlocks(func) :
       \E m \in SetsIn(Instrument(func), {b}), n \in SetsIn(Instrument(func), {b}) :
         /\ m[2] < n[2]
         /\ Act(Instrument(func), m).index = Act(Instrument(func), n).index
         /\ n \in endSets[b]
         /\ \E o \in endSets[b] : Act(Instrument(func), o).index /= Act(Instrument(func), n).index


\* what the analyses left, as Equivalences::compute takes it
analysedNow ==
  [ f |-> Instrument(func), g |-> linked(Instrument(func)), gs |-> getSetses ]

\* C25: in the floodfill of the equivalences of the coalescer every node is given a
\* class once: no node popped from the work list has a class already, whatever the
\* order of the nodes, and in the end every set of a live block has a class that is
\* not 0, the null class.
C25_ClassGivenOnce ==
  pc \in {"done", "aborted"} =>
    /\ \A rank \in IterationOrders(analysedNow) :
         Equivalences(analysedNow.f, analysedNow.g, analysedNow.gs, rank).ok
    /\ DOMAIN equivalenceClasses = SetsIn(Instrument(func), liveBlocks(func))
    /\ \A set \in DOMAIN equivalenceClasses : equivalenceClasses[set] > 0

\* C25 happens: a set that merges several sets was given a class before the sets it
\* merges, which then all got one class
C25_Witness ==
  /\ pc = "done"
  /\ \E set \in DOMAIN equivalenceClasses :
       /\ mergesInOf(Instrument(func), getSetses, set) /= {}
       /\ \A m, n \in mergesInOf(Instrument(func), getSetses, set) :
            equivalenceClasses[m] = equivalenceClasses[n]
       /\ \A m \in mergesInOf(Instrument(func), getSetses, set) :
            equivalenceClasses[set] < equivalenceClasses[m]


-----------------------------------------------------------------------------
(* Claims about the merges of the Equivalences engines.                     *)

\* the writes that reach the read a merge write copies and have the class of the merge
\* write; the class of the implicit initial value is the class of the zero of the type
rseMergedWith(f, classes, set) ==
  {m \in rseMergesInOf(f, LocalGraph(f), set) :
     parentClass(f, classes, valueNode(set), nodeSet(m)) = classes.setClasses[set]}

\* C26: in the final equivalence classes a write whose value is a read with several
\* reaching writes is in the same class as one of those reaching writes only if all of
\* its reaching writes are in that class. A write that reaches its own read is not
\* counted among them here (it is in its own class whatever the others are).
C26_MergedOnlyWithAll ==
  pc \in {"done", "again"} =>
    \A set \in SetsIn(func, Blocks(func)) :
      rseMergedWith(func, equivalenceClasses, set) \ {set}
        \in {{}, rseMergesInOf(func, LocalGraph(func), set) \ {set}}


-----------------------------------------------------------------------------
(* Claims about the index pickIndicesFromOrder gives each local.            *)

\* the locals placed before position i of the order: the parameters and the locals at
\* the positions before i
placedBefore(order, i) == {order[k] : k \in 0 .. (i - 1)}

\* the locals placed before position i that were given index j
mergedInto(order, i, j) == {e \in placedBefore(order, i) : indices[e] = j}

\* the indices in use before position i that the local at position i may share: of its
\* type, and none of the locals merged into it interferes with the local
candidatesAt(order, i) ==
  {j \in {indices[e] : e \in placedBefore(order, i)} :
     \A e \in mergedInto(order, i, j) :
       /\ getLocalType(func, e) = getLocalType(func, order[i])
       /\ e \notin indexInterferences[order[i]]}

\* the copy weight between the local at position i and the locals merged into index j,
\* as an integer sum
weightAt(order, i, j) ==
  SumOver(mergedInto(order, i, j),
          [e \in Locals(func) |-> getCopies(copies, order[i], e)])

\* the index the local at position i is to get
bestAt(order, i) ==
  IF candidatesAt(order, i) = {} THEN Cardinality({indices[e] : e \in placedBefore(order, i)})
  ELSE CHOOSE j \in candidatesAt(order, i) :
         \A k \in candidatesAt(order, i) :
           \/ weightAt(order, i, k) < weightAt(order, i, j)
           \/ weightAt(order, i, k) = weightAt(order, i, j) /\ j <= k

\* C27: for each non-parameter local taken in order, pickIndicesFromOrder assigns the
\* lowest-numbered index already in use, among those of equal type and without
\* interference, that maximizes the total copy weight between the local and the locals
\* merged into that index, the total being the exact integer sum of the pairwise
\* weights (also when it reaches 256 or more); it opens a new index only when there is
\* no such candidate.
C27_BestIndexByExactWeight ==
  (pc = "picked" /\ Len(handed) = 1) =>
    \A i \in Vars(func) : indices[handed[1][i]] = bestAt(handed[1], i)


\* the copy weight between the locals that were given the same index: each pair of
\* distinct locals once
mergedPairs == {p \in CanonicalPairs(func.numLocals) : p[1] /= p[2] /\ indices[p[1]] = indices[p[2]]}

mergedCopies == SumOver(mergedPairs, [p \in CanonicalPairs(func.numLocals) |-> getCopies(copies, p[1], p[2])])

\* C28: the removedCopies pickIndicesFromOrder returns is the sum of the copy weights
\* copies(i, j) over all pairs of distinct locals i, j that were given the same index; a
\* local that opens a new index adds nothing at that step.
C28_RemovedCopiesAreMergedCopies ==
  (pc = "picked" /\ Len(handed) = 1) => removedCopies = mergedCopies


-----------------------------------------------------------------------------
(* SpecTwoOrders: CoalesceLocals::pickIndices on the inputs of SpecPick and *)
(* on functions of one more variable, where the order of the variables can  *)
(* change the number of indices used.                                       *)

WideLocals == MaxLocals + 1

WideFuncs == {MakeFunc(WideLocals, 0, [i \in 0 .. (WideLocals - 1) |-> "i32"])}

\* copies of the wider functions: no copy or one copy between two locals
WideCopyMaps(f) ==
  {c \in [CanonicalPairs(f.numLocals) -> {0, 2}] : \A p \in DOMAIN c : p[1] = p[2] => c[p] = 0}

InitTwoOrders ==
  /\ func \in PickFuncs \cup WideFuncs
  /\ indexInterferences \in InterferenceRelations(func)
  /\ copies \in IF func \in WideFuncs THEN WideCopyMaps(func) ELSE CopyMaps(func)
  /\ pc = "ready"
  /\ handed = <<>>
  /\ indices = NoIndices
  /\ removedCopies = 0
  /\ population = {}
  /\ first = TRUE
  /\ startIndexes = <<>>
  /\ endIndexes = <<>>
  /\ queue = {}
  /\ startSets = <<>>
  /\ endSets = <<>>
  /\ getSetses = <<>>
  /\ equivalenceClasses = <<>>
  /\ ir = <<>>
  /\ unneeded = {}
  /\ changesDone = {}
  /\ module = <<>>
  /\ counts = <<>>
  /\ scanned = <<>>

NextTwoOrders == PickIndices

SpecTwoOrders == InitTwoOrders /\ [][NextTwoOrders]_vars

-----------------------------------------------------------------------------
(* Claims about the two orders of CoalesceLocals::pickIndices.              *)

\* order o has the parameters in place and then the variables by descending total
\* copy weight, those of equal weight by ascending number (up) or descending number
sortedByWeight(o, up) ==
  /\ IsPermutation(o, func.numLocals)
  /\ \A i \in Params(func) : o[i] = i
  /\ \A a, b \in Vars(func) :
       a < b =>
         \/ getTotalCopies(func, copies)[o[a]] > getTotalCopies(func, copies)[o[b]]
         \/ /\ getTotalCopies(func, copies)[o[a]] = getTotalCopies(func, copies)[o[b]]
            /\ IF up THEN o[a] < o[b] ELSE o[a] > o[b]

\* what pickIndicesFromOrder returns for the k-th order handed
pickedFrom(k) == pickIndicesFromOrder(func, indexInterferences, copies, handed[k])

\* the second order handed removes more copies than the first, or as many with a
\* smaller maximum index
reverseIsBetter ==
  \/ pickedFrom(2).removedCopies > pickedFrom(1).removedCopies
  \/ /\ pickedFrom(2).removedCopies = pickedFrom(1).removedCopies
     /\ MaxOf(pickedFrom(2).indices) < MaxOf(pickedFrom(1).indices)

-----------------------------------------------------------------------------
(* SpecLearn: CoalesceLocalsWithLearning::pickIndices on functions of four  *)
(* variables whose interferences form a chain from local 0, with one copy   *)
(* between two variables that interfere.                                    *)

\* every local interferes with one or two others, three pairs in all; the chain
\* starts at local 0
ChainInterferences(f) ==
  {r \in InterferenceRelations(f) :
     /\ Cardinality(r[0]) = 1
     /\ \A i \in Locals(f) : Cardinality(r[i]) \in {1, 2}
     /\ SumOver(Locals(f), [i \in Locals(f) |-> Cardinality(r[i])]) = 2 * (f.numLocals - 1)}

\* one copy, between two locals that interfere
OneCopyMaps(f, r) ==
  {c \in WideCopyMaps(f) :
     /\ Cardinality({p \in DOMAIN c : c[p] /= 0}) = 1
     /\ \A p \in DOMAIN c : c[p] /= 0 => p[2] \in r[p[1]]}

InitLearn ==
  /\ func \in WideFuncs
  /\ indexInterferences \in ChainInterferences(func)
  /\ copies \in OneCopyMaps(func, indexInterferences)
  /\ pc = "ready"
  /\ handed = <<>>
  /\ indices = NoIndices
  /\ removedCopies = 0
  /\ population = {}
  /\ first = TRUE
  /\ startIndexes = <<>>
  /\ endIndexes = <<>>
  /\ queue = {}
  /\ startSets = <<>>
  /\ endSets = <<>>
  /\ getSetses = <<>>
  /\ equivalenceClasses = <<>>
  /\ ir = <<>>
  /\ unneeded = {}
  /\ changesDone = {}
  /\ module = <<>>
  /\ counts = <<>>
  /\ scanned = <<>>

NextLearn == MakeRandom \/ MakeMixture \/ LearnerPicks

SpecLearn == InitLearn /\ [][NextLearn]_vars

-----------------------------------------------------------------------------
(* Claims about the learning variant.                                       *)

=============================================================================
